---- MODULE Spec2Model ----
(***************************************************************************)
(* Model of the listing front-end: the explore page (search + filter), the *)
(* featured-apartments listing of the home page, the pure filter, the      *)
(* assistant page, and the admin side: AuthProvider with the guarded       *)
(* /admin route, the property list and the settings form.                  *)
(*                                                                         *)
(* Text is a sequence of one-character strings, so that trimming and       *)
(* case-insensitive substring matching are computed, not assumed.          *)
(* A nullable number (number | null) is a record [isNull, v].              *)
(***************************************************************************)
EXTENDS Integers, Sequences, FiniteSets, Bags, TLC

VARIABLES
    route,            \* the mounted page: "/explore" or "/"
    \* ---- ExplorePage state (useState cells) ----
    url,              \* location.search: ordered sequence of <<key, value>>
    searchTerm, priceRange, roomCount, bathCount, minSize,
    properties, loading, searchResults, isSearchActive,
    \* ---- ExplorePage asynchronous calls ----
    listing,          \* the mount-time fetchProperties: "pending" | "ok" | "failed"
    inflight,         \* the performSearch calls suspended at their await, a bag of
                      \* the term each sent and the criteria its closure holds
    latestReq,        \* the performSearch call started last
    latestOut,        \* its outcome: "none" | "pending" | "ok" | "failed"
    userActions,      \* user actions on the explore page in this run
    \* ---- FeaturedApartments state ----
    faProperties, faLoading, faError, faMounted, faTimer,
    faFetches,        \* outcome of every fetchProperties call, in start order
    faNotes,          \* change notifications raised and not yet delivered
    repoVersion,      \* version of the repository content (changes raise notifications)
    \* ---- observation of the run ----
    lastEvent,        \* kind of the handler that ran last
    issuedNow,        \* repository queries the last handler sent
    failedUnattended, \* a query failed and no user action or notification came since
    \* ---- filter applied to drawn inputs ----
    fP, fPrice, fRooms, fBaths, fSize, fOut, fOutSearch, fOutAgain, fpc,
    \* ---- the repository query applied to drawn inputs ----
    sTerm, sRows, sOut, spc,
    \* ---- the response composer applied to drawn inputs ----
    cMode, cInput, cCtx, cData, cOut, cpc,
    \* ---- SmartAssistantPage ----
    aPhase,           \* "idle" | "mounting" (first render done, effects not yet run) | "ready"
    messages, inputText, isTyping, propertyContext,
    seedTimer,        \* the 2000 ms timer of the seed effect and the string it holds
    replyTimers,      \* the 1500 ms timers of handleSendMessage, in start order, each
                      \* with the input text and the propertyContext of its closure
    store,            \* sessionStorage: the two transfer items
    aSends,           \* messages sent in this session
    \* ---- AuthProvider and the router ----
    authPhase,        \* "idle" | "mounting" | "ready"
    user,             \* the user state cell
    session,          \* the session the auth client holds (persisted)
    authCalls,        \* checkSession / login / signOut calls suspended at their await
    authEvents,       \* auth state changes not yet delivered to the listener
    authResult,       \* how the login or signOut call that just finished ended
    authCount,        \* login and signOut calls made in this run
    target,           \* the path the router was last asked to render
    \* ---- ListProperties ----
    lpPhase, lpProperties, lpLoading, lpError,
    lpFetching,       \* a fetchProperties call is suspended at its await
    lpDeletes,        \* handleDelete calls suspended at their await, each with the
                      \* id and the properties of its closure
    lpRepo,           \* ids of the properties in the repository
    lpGone,           \* ids whose delete was accepted since the last fetch answer
    lpEvent,          \* what the last handler of the list did
    lpActions,        \* delete clicks and edit saves in this run
    \* ---- AdminSettings ----
    stPc,             \* "off" | "idle" | the await saveSettings is suspended at
    stEmail,          \* settings.admin_email
    isSavingSettings,
    stError, stSuccess, \* the error / success notification is set
    stWrites,         \* upserts the current saveSettings call sent to the settings table
    stTimers,         \* showNotification timers not yet fired
    stSaves,          \* saveSettings calls in this run
    stUser            \* what getUser answered the current call

exploreVars == <<url, searchTerm, priceRange, roomCount, bathCount, minSize,
                 properties, loading, searchResults, isSearchActive,
                 listing, inflight, latestReq, latestOut, userActions>>
featuredVars == <<faProperties, faLoading, faError, faMounted, faTimer,
                  faFetches, faNotes, repoVersion>>
filterVars == <<fP, fPrice, fRooms, fBaths, fSize, fOut, fOutSearch, fOutAgain, fpc>>
observed == <<lastEvent, issuedNow, failedUnattended>>
searchVars == <<sTerm, sRows, sOut, spc>>
composeVars == <<cMode, cInput, cCtx, cData, cOut, cpc>>
drawnVars == <<filterVars, searchVars, composeVars>>
assistantVars == <<aPhase, messages, inputText, isTyping, propertyContext,
                   seedTimer, replyTimers, store, aSends>>
authVars == <<authPhase, user, session, authCalls, authEvents, authResult, authCount, target>>
listVars == <<lpPhase, lpProperties, lpLoading, lpError, lpFetching, lpDeletes,
              lpRepo, lpGone, lpEvent, lpActions>>
settingsVars == <<stPc, stEmail, isSavingSettings, stError, stSuccess, stWrites,
                  stTimers, stSaves, stUser>>
adminVars == <<authVars, listVars, settingsVars>>
pageVars == <<route, exploreVars, featuredVars, observed, assistantVars, adminVars>>
vars == <<pageVars, drawnVars>>

(***************************************************************************)
(* Bounds of the model                                                     *)
(***************************************************************************)
MaxActions == 4       \* user actions on the explore page in one run
MaxFetches == 3       \* FeaturedApartments fetchProperties calls in one run
MaxChanges == 2       \* repository changes in one run
MaxLen == 2           \* length of the property lists drawn for the filter
MaxRows == 2          \* rows of the table drawn for the repository query
MaxPhrases == 2       \* words combined into one input of the composer
MaxSends == 3         \* messages sent in one assistant session
MaxAuthCalls == 3     \* login and signOut calls in one run
MaxListActions == 3   \* delete clicks and edit saves in one run
MaxSaves == 2         \* saveSettings calls in one run

(***************************************************************************)
(* Values                                                                  *)
(***************************************************************************)
Null == [isNull |-> TRUE, v |-> 0]
Num(n) == [isNull |-> FALSE, v |-> n]

DefaultPriceMin == 0
DefaultPriceMax == 2000000
DefaultPriceRange == <<DefaultPriceMin, DefaultPriceMax>>

\* ---- text ----
IsSpace(c) == c = " "

RECURSIVE TrimStart(_)
TrimStart(s) ==
    IF s = <<>> THEN s
    ELSE IF IsSpace(Head(s)) THEN TrimStart(Tail(s)) ELSE s

RECURSIVE TrimEnd(_)
TrimEnd(s) ==
    IF s = <<>> THEN s
    ELSE IF IsSpace(s[Len(s)]) THEN TrimEnd(SubSeq(s, 1, Len(s) - 1)) ELSE s

\* String.prototype.trim without the trimming (a forgotten .trim())
TrimOmitted(s) == s

\* String.prototype.trim
Trim(s) == TrimEnd(TrimStart(s))

\* !searchTerm.trim(): the trimmed term is the empty string
IsBlank(s) == Trim(s) = <<>>

\* toLowerCase / case-insensitive comparison of one character
LowerChar(c) ==
    LET upper ==
            <<"A", "B", "C", "D", "E", "F", "G", "H", "I", "J", "K", "L", "M",
              "N", "O", "P", "Q", "R", "S", "T", "U", "V", "W", "X", "Y", "Z">>
        lower ==
            <<"a", "b", "c", "d", "e", "f", "g", "h", "i", "j", "k", "l", "m",
              "n", "o", "p", "q", "r", "s", "t", "u", "v", "w", "x", "y", "z">>
    IN  IF \E i \in 1..26 : upper[i] = c
        THEN lower[CHOOSE i \in 1..26 : upper[i] = c]
        ELSE c

Lower(s) == [i \in 1..Len(s) |-> LowerChar(s[i])]

\* s contains t as a contiguous substring
Contains(s, t) ==
    \E i \in 0..(Len(s) - Len(t)) : SubSeq(s, i + 1, i + Len(t)) = t

\* text LIKE pattern: % matches any run of characters, _ any one character
RECURSIVE LikeMatch(_, _)
LikeMatch(pat, s) ==
    IF pat = <<>> THEN s = <<>>
    ELSE IF Head(pat) = "%"
         THEN \E k \in 0..Len(s) : LikeMatch(Tail(pat), SubSeq(s, k + 1, Len(s)))
         ELSE /\ s # <<>>
              /\ Head(pat) = "_" \/ Head(pat) = Head(s)
              /\ LikeMatch(Tail(pat), Tail(s))

\* column.ilike.%term%: the term is pasted into the pattern as typed
ILike(column, term) ==
    LikeMatch(<<"%">> \o Lower(term) \o <<"%">>, Lower(column))

\* ---- the repository content (rows of the properties table, newest first) ----
Repo ==
    << [id |-> 1, title |-> <<"A">>, location |-> <<"x">>, description |-> <<>>,
        price |-> 1, bedrooms |-> 1, bathrooms |-> 1, size |-> 1],
       [id |-> 2, title |-> <<"x">>, location |-> <<"b", " ", "x">>, description |-> <<"x">>,
        price |-> 2, bedrooms |-> 2, bathrooms |-> 2, size |-> 2],
       [id |-> 3, title |-> <<"x">>, location |-> <<"x">>, description |-> <<"B">>,
        price |-> 3, bedrooms |-> 1, bathrooms |-> 2, size |-> 3] >>

\* .or(title.ilike.%t%,location.ilike.%t%,description.ilike.%t%).order(created_at desc)
QueryRows(rows, term) ==
    SelectSeq(rows, LAMBDA p : ILike(p.title, term) \/ ILike(p.location, term)
                                 \/ ILike(p.description, term))

QueryMatching(term) == QueryRows(Repo, term)

\* ---- the filter ----
\* price test with the upper bound exclusive
MatchesPriceExclusive(p, pr) == p.price >= pr[1] /\ p.price < pr[2]

MatchesPrice(p, pr) == p.price >= pr[1] /\ p.price <= pr[2]
MatchesRooms(p, rc) == rc.isNull \/ p.bedrooms = rc.v
MatchesBaths(p, bc) == bc.isNull \/ p.bathrooms = bc.v
MatchesSize(p, ms) == ms.isNull \/ p.size >= ms.v

RECURSIVE InsertByPrice(_, _)
InsertByPrice(p, sorted) ==
    IF sorted = <<>> THEN <<p>>
    ELSE IF p.price <= Head(sorted).price THEN <<p>> \o sorted
    ELSE <<Head(sorted)>> \o InsertByPrice(p, Tail(sorted))

RECURSIVE SortByPrice(_)
SortByPrice(P) ==
    IF P = <<>> THEN <<>> ELSE InsertByPrice(Head(P), SortByPrice(Tail(P)))

\* the filter followed by .sort((a, b) => a.price - b.price)
FilterDisplaySorted(P, pr, rc, bc, ms) ==
    SortByPrice(SelectSeq(P, LAMBDA p : MatchesPrice(p, pr) /\ MatchesRooms(p, rc)
                                          /\ MatchesBaths(p, bc) /\ MatchesSize(p, ms)))

\* the filter followed by .slice(1)
FilterDisplaySkippingFirst(P, pr, rc, bc, ms) ==
    LET kept == SelectSeq(P, LAMBDA p : MatchesPrice(p, pr) /\ MatchesRooms(p, rc)
                                          /\ MatchesBaths(p, bc) /\ MatchesSize(p, ms))
    IN  IF kept = <<>> THEN kept ELSE Tail(kept)

\* getDisplayProperties: properties.filter(...)
FilterDisplay(P, pr, rc, bc, ms) ==
    SelectSeq(P, LAMBDA p : MatchesPrice(p, pr) /\ MatchesRooms(p, rc)
                              /\ MatchesBaths(p, bc) /\ MatchesSize(p, ms))

\* performSearch: results.filter(...)
FilterSearch(P, pr, rc, bc, ms) ==
    SelectSeq(P, LAMBDA p : (p.price >= pr[1] /\ p.price <= pr[2])
                              /\ (rc.isNull \/ p.bedrooms = rc.v)
                              /\ (bc.isNull \/ p.bathrooms = bc.v)
                              /\ (ms.isNull \/ p.size >= ms.v))


(***************************************************************************)
(* location.search as URLSearchParams: an ordered list of <<key, value>>.  *)
(* The value of q and location is text, of price a pair, of the others a   *)
(* number. Two query strings are equal iff the lists are equal.            *)
(***************************************************************************)
UrlHas(u, k) == \E i \in 1..Len(u) : u[i][1] = k

\* URLSearchParams.get: the value of the first pair named k
UrlGet(u, k) == u[CHOOSE i \in 1..Len(u) : u[i][1] = k /\ \A j \in 1..(i - 1) : u[j][1] # k][2]

\* URLSearchParams.delete
UrlDelete(u, k) == SelectSeq(u, LAMBDA kv : kv[1] # k)

\* URLSearchParams.set: overwrite in place, or append
UrlSet(u, k, v) ==
    IF UrlHas(u, k)
    THEN [i \in 1..Len(u) |-> IF u[i][1] = k THEN <<k, v>> ELSE u[i]]
    ELSE Append(u, <<k, v>>)

\* updateUrlParams: the query string written from the five criteria
UpdateUrlParams(c) ==
    (IF c.searchTerm # <<>> THEN << <<"q", c.searchTerm>> >> ELSE <<>>)
    \o (IF c.priceRange[1] > 0 \/ c.priceRange[2] < DefaultPriceMax
        THEN << <<"price", c.priceRange>> >> ELSE <<>>)
    \o (IF ~c.roomCount.isNull THEN << <<"rooms", c.roomCount.v>> >> ELSE <<>>)
    \o (IF ~c.bathCount.isNull THEN << <<"baths", c.bathCount.v>> >> ELSE <<>>)
    \o (IF ~c.minSize.isNull THEN << <<"minSize", c.minSize.v>> >> ELSE <<>>)

(***************************************************************************)
(* ExplorePage. A render is the record of the state cells; prSet and       *)
(* propsSet say that setPriceRange / setProperties stored a fresh array    *)
(* since the previous render (arrays are compared by identity in the       *)
(* dependency lists).                                                      *)
(***************************************************************************)
Cur ==
    [url |-> url, searchTerm |-> searchTerm, priceRange |-> priceRange,
     roomCount |-> roomCount, bathCount |-> bathCount, minSize |-> minSize,
     properties |-> properties, loading |-> loading,
     searchResults |-> searchResults, isSearchActive |-> isSearchActive,
     listing |-> listing, inflight |-> inflight,
     latestReq |-> latestReq, latestOut |-> latestOut,
     prSet |-> FALSE, propsSet |-> FALSE]

NoRequest ==
    [term |-> <<>>, priceRange |-> DefaultPriceRange,
     roomCount |-> Null, bathCount |-> Null, minSize |-> Null]

\* the values a performSearch call closes over
Request(c) ==
    [term |-> c.searchTerm, priceRange |-> c.priceRange,
     roomCount |-> c.roomCount, bathCount |-> c.bathCount, minSize |-> c.minSize]

\* the useState initial values, on a page opened at query string u
InitialState(u) ==
    [url |-> u, searchTerm |-> <<>>, priceRange |-> DefaultPriceRange,
     roomCount |-> Null, bathCount |-> Null, minSize |-> Null,
     properties |-> <<>>, loading |-> TRUE,
     searchResults |-> <<>>, isSearchActive |-> FALSE,
     listing |-> "none", inflight |-> EmptyBag,
     latestReq |-> NoRequest, latestOut |-> "none",
     prSet |-> FALSE, propsSet |-> FALSE]

\* effect "Parse URL query params": c is the render it closes over, s the pending state
UrlEffect(c, s) ==
    LET hasQ == UrlHas(c.url, "q") /\ UrlGet(c.url, "q") # <<>>
        hasLoc == UrlHas(c.url, "location") /\ UrlGet(c.url, "location") # <<>>
        s1 == IF hasQ
              THEN [s EXCEPT !.searchTerm = UrlGet(c.url, "q"), !.isSearchActive = TRUE]
              ELSE s
        s2 == IF hasLoc /\ ~hasQ
              THEN [s1 EXCEPT !.searchTerm = UrlGet(c.url, "location"), !.isSearchActive = TRUE]
              ELSE s1
        s3 == IF UrlHas(c.url, "price")
              THEN [s2 EXCEPT !.priceRange = UrlGet(c.url, "price"), !.prSet = TRUE]
              ELSE s2
        s4 == IF UrlHas(c.url, "rooms")
              THEN [s3 EXCEPT !.roomCount = Num(UrlGet(c.url, "rooms"))]
              ELSE s3
    IN s4

\* effect "Fetch all properties" (mount only): the listing query is sent
FetchEffect(c, s) == [s EXCEPT !.listing = "pending"]

\* performSearch up to its await: the query is sent with the closure's term,
\* and the closure's criteria wait for the response
PerformSearch(c, s) ==
    IF IsBlank(c.searchTerm) THEN s
    ELSE [s EXCEPT !.loading = TRUE,
                   !.inflight = @ (+) SetToBag({Request(c)}),
                   !.latestReq = Request(c),
                   !.latestOut = "pending"]

\* effect "Perform search when search term or filters change"
SearchEffect(c, s) ==
    IF c.isSearchActive /\ ~IsBlank(c.searchTerm) THEN PerformSearch(c, s)
    ELSE IF IsBlank(c.searchTerm)
         THEN [s EXCEPT !.searchResults = <<>>, !.isSearchActive = FALSE]
         ELSE s

\* [searchTerm, properties, priceRange, roomCount] changed since the previous render
SearchDepsChanged(prev, cur) ==
    \/ prev.searchTerm # cur.searchTerm
    \/ cur.propsSet
    \/ cur.prSet
    \/ prev.roomCount # cur.roomCount

\* [location.search] changed since the previous render
UrlDepsChanged(prev, cur) == prev.url # cur.url

\* Render cur after prev, run the effects whose dependencies changed (in
\* declaration order, against the render's closure), and render again until
\* no effect is due.
RECURSIVE Render(_, _)
Render(prev, cur) ==
    LET c == [cur EXCEPT !.prSet = FALSE, !.propsSet = FALSE]
        urlDue == UrlDepsChanged(prev, cur)
        searchDue == SearchDepsChanged(prev, cur)
        s1 == IF urlDue THEN UrlEffect(c, c) ELSE c
        s2 == IF searchDue THEN SearchEffect(c, s1) ELSE s1
    IN IF ~urlDue /\ ~searchDue THEN c ELSE Render(c, s2)

\* first render of a page opened at query string u: every effect runs once
Mount(u) ==
    LET c == InitialState(u)
    IN Render(c, SearchEffect(c, FetchEffect(c, UrlEffect(c, c))))


(***************************************************************************)
(* ExplorePage: handlers as state transformers                             *)
(***************************************************************************)
\* handleSearchChange(e) with e.target.value = v
HandleSearchChange(c, v) ==
    [c EXCEPT !.searchTerm = v,
              !.url = IF ~IsBlank(v) THEN UrlSet(c.url, "q", Trim(v))
                      ELSE UrlDelete(c.url, "q")]

\* the two clear-search buttons (search box X, "Search:" chip X)
ClearSearchClick(c) ==
    [c EXCEPT !.searchTerm = <<>>, !.isSearchActive = FALSE,
              !.searchResults = <<>>, !.url = <<>>]

\* price inputs of the filter panel and the price chip: setPriceRange([...])
SetPriceRange(c, pr) == [c EXCEPT !.priceRange = pr, !.prSet = TRUE]

\* bedrooms select and chip
SetRoomCount(c, n) == [c EXCEPT !.roomCount = n]

\* bathrooms select and chip
SetBathCount(c, n) == [c EXCEPT !.bathCount = n]

\* min-size input and chip
SetMinSize(c, n) == [c EXCEPT !.minSize = n]

\* applyFilters: updateUrlParams(); setShowFilters(false)
ApplyFilters(c) == [c EXCEPT !.url = UpdateUrlParams(c)]

\* resetFilters
ResetFilters(c) ==
    [c EXCEPT !.searchTerm = <<>>, !.priceRange = DefaultPriceRange, !.prSet = TRUE,
              !.roomCount = Null, !.bathCount = Null, !.minSize = Null,
              !.isSearchActive = FALSE, !.searchResults = <<>>, !.url = <<>>]

\* Navbar link to /explore while the page is mounted: the query string is emptied
NavbarExploreLink(c) == [c EXCEPT !.url = <<>>]

\* fetchProperties after its await, data returned
OnListingData(c) ==
    [c EXCEPT !.properties = Repo, !.propsSet = TRUE, !.loading = FALSE, !.listing = "ok"]

\* fetchProperties after its await, error returned: catch, finally
OnListingError(c) == [c EXCEPT !.loading = FALSE, !.listing = "failed"]

\* a suspended call with closure r leaves its await with outcome out; of two
\* suspended calls with equal closures the one started first is taken
Settle(c, r, out) ==
    [c EXCEPT !.inflight = @ (-) SetToBag({r}),
              !.latestOut = IF r = c.latestReq /\ CopiesIn(r, c.inflight) = 1 /\ @ = "pending"
                            THEN out ELSE @]

\* what a performSearch call commits when its query returns data
SearchOutput(r) ==
    FilterSearch(QueryMatching(r.term), r.priceRange, r.roomCount, r.bathCount, r.minSize)

\* performSearch after its await, error returned, with the results cleared first
OnSearchErrorClearing(c, r) ==
    [Settle(c, r, "failed") EXCEPT !.searchResults = <<>>, !.loading = FALSE]

\* performSearch after its await, error returned: catch, finally
OnSearchError(c, r) == [Settle(c, r, "failed") EXCEPT !.loading = FALSE]

\* performSearch after its await, data returned: filter with the closure's criteria
OnSearchData(c, r) ==
    [Settle(c, r, "ok") EXCEPT !.searchResults = SearchOutput(r),
                               !.isSearchActive = TRUE,
                               !.loading = FALSE]

\* getDisplayProperties
DisplayProperties ==
    IF isSearchActive THEN searchResults
    ELSE FilterDisplay(properties, priceRange, roomCount, bathCount, minSize)

\* what the page renders: the loading screen, the result list, or the empty state
ExploreView ==
    IF loading THEN "loading"
    ELSE IF Len(DisplayProperties) > 0 THEN "results"
    ELSE "empty"

Pending == BagToSet(inflight)


(***************************************************************************)
(* FeaturedApartments (home page). The repository content at version v is  *)
(* the newest v + 1 rows of Repo, newest first.                            *)
(***************************************************************************)
Min(a, b) == IF a <= b THEN a ELSE b

RepoAt(v) == SubSeq(Repo, Len(Repo) - Min(Len(Repo), v + 1) + 1, Len(Repo))

FaCur ==
    [properties |-> faProperties, loading |-> faLoading, error |-> faError,
     mounted |-> faMounted, timer |-> faTimer, fetches |-> faFetches]

\* fetchProperties up to its await
FaFetchProperties(f, ver) ==
    [f EXCEPT !.loading = TRUE, !.error = "none",
              !.fetches = Append(@, [ver |-> ver, out |-> "pending", rows |-> <<>>])]

\* fetchProperties after its await, data returned (state setters of an
\* unmounted component do nothing)
FaOnData(f, i, rows) ==
    IF f.mounted
    THEN [f EXCEPT !.properties = rows, !.loading = FALSE,
                   !.fetches[i].out = "ok", !.fetches[i].rows = rows]
    ELSE [f EXCEPT !.fetches[i].out = "ok", !.fetches[i].rows = rows]

\* fetchProperties after its await fails, and the catch block fetches again
FaOnErrorRetrying(f, i, kind) ==
    IF f.mounted
    THEN [f EXCEPT !.error = "none", !.loading = TRUE,
                   !.fetches = Append([@ EXCEPT ![i].out = "failed"],
                                      [ver |-> f.fetches[i].ver, out |-> "pending",
                                       rows |-> <<>>])]
    ELSE [f EXCEPT !.fetches[i].out = "failed"]

\* fetchProperties after its await, error returned or thrown: catch, finally
FaOnError(f, i, kind) ==
    IF f.mounted
    THEN [f EXCEPT !.error = kind, !.loading = FALSE, !.fetches[i].out = "failed"]
    ELSE [f EXCEPT !.fetches[i].out = "failed"]

\* what FeaturedApartments renders
FaView ==
    IF faLoading THEN "loading"
    ELSE IF faError # "none" THEN "error"
    ELSE IF Len(faProperties) = 0 THEN "none available"
    ELSE "grid"

FaPending == {i \in 1..Len(faFetches) : faFetches[i].out = "pending"}

(***************************************************************************)
(* Inputs                                                                  *)
(***************************************************************************)
Terms == { <<>>, <<" ">>, <<"a">>, <<"b", " ">> }
PriceMinInputs == {0, 2}
PriceMaxInputs == {1, DefaultPriceMax}
RoomInputs == {Null, Num(1)}
BathInputs == {Null, Num(2)}
SizeInputs == {Null, Num(2)}
\* query strings the explore page is opened with
InitUrls == { <<>>, << <<"q", <<"a">>>> >>, << <<"location", <<"a">>>> >> }
ErrorKinds == {"database", "connection"}

\* kinds of handler: a user action, a change notification, the mount timer,
\* a repository change made elsewhere, a query answered, a query failed
EventKinds == {"mount", "user", "notify", "timer", "change", "fulfilled", "rejected"}

\* the observation after a handler of kind ev that sent n queries
Observe(ev, n) ==
    /\ lastEvent' = ev
    /\ issuedNow' = n
    /\ failedUnattended' =
         IF ev = "rejected" THEN TRUE
         ELSE IF ev \in {"user", "notify"} THEN FALSE
         ELSE failedUnattended

\* store the render s reached after a handler of kind ev, which settled
\* `settled` suspended calls
Commit(s, ev, settled) ==
    /\ userActions + (IF ev = "user" THEN 1 ELSE 0) <= MaxActions
    /\ userActions' = userActions + (IF ev = "user" THEN 1 ELSE 0)
    /\ url' = s.url
    /\ searchTerm' = s.searchTerm
    /\ priceRange' = s.priceRange
    /\ roomCount' = s.roomCount
    /\ bathCount' = s.bathCount
    /\ minSize' = s.minSize
    /\ properties' = s.properties
    /\ loading' = s.loading
    /\ searchResults' = s.searchResults
    /\ isSearchActive' = s.isSearchActive
    /\ listing' = s.listing
    /\ inflight' = s.inflight
    /\ latestReq' = s.latestReq
    /\ latestOut' = s.latestOut
    /\ Observe(ev, BagCardinality(s.inflight) - (BagCardinality(inflight) - settled))
    /\ UNCHANGED <<route, featuredVars, assistantVars, drawnVars, adminVars>>

FaCommit(f, ev) ==
    /\ Len(f.fetches) <= MaxFetches
    /\ faProperties' = f.properties
    /\ faLoading' = f.loading
    /\ faError' = f.error
    /\ faMounted' = f.mounted
    /\ faTimer' = f.timer
    /\ faFetches' = f.fetches
    /\ Observe(ev, Len(f.fetches) - Len(faFetches))
    /\ UNCHANGED <<route, exploreVars, assistantVars, drawnVars, adminVars>>

\* the controls of the explore page are rendered only when loading is false
ExploreControls == route = "/explore" /\ ~loading

(***************************************************************************)
(* Actions of the explore page                                             *)
(***************************************************************************)
SearchChange ==
    \E v \in Terms :
        /\ ExploreControls
        /\ v # searchTerm
        /\ Commit(Render(Cur, HandleSearchChange(Cur, v)), "user", 0)

ClearSearch ==
    /\ ExploreControls
    /\ searchTerm # <<>>
    /\ Commit(Render(Cur, ClearSearchClick(Cur)), "user", 0)

PriceMinChange ==
    \E v \in PriceMinInputs :
        /\ ExploreControls
        /\ v # priceRange[1]
        /\ Commit(Render(Cur, SetPriceRange(Cur, <<v, priceRange[2]>>)), "user", 0)

PriceMaxChange ==
    \E v \in PriceMaxInputs :
        /\ ExploreControls
        /\ v # priceRange[2]
        /\ Commit(Render(Cur, SetPriceRange(Cur, <<priceRange[1], v>>)), "user", 0)

PriceChipClear ==
    /\ ExploreControls
    /\ priceRange[1] > 0 \/ priceRange[2] < DefaultPriceMax
    /\ Commit(Render(Cur, SetPriceRange(Cur, DefaultPriceRange)), "user", 0)

RoomCountChange ==
    \E n \in RoomInputs :
        /\ ExploreControls
        /\ n # roomCount
        /\ Commit(Render(Cur, SetRoomCount(Cur, n)), "user", 0)

BathCountChange ==
    \E n \in BathInputs :
        /\ ExploreControls
        /\ n # bathCount
        /\ Commit(Render(Cur, SetBathCount(Cur, n)), "user", 0)

MinSizeChange ==
    \E n \in SizeInputs :
        /\ ExploreControls
        /\ n # minSize
        /\ Commit(Render(Cur, SetMinSize(Cur, n)), "user", 0)

Apply ==
    /\ ExploreControls
    /\ Commit(Render(Cur, ApplyFilters(Cur)), "user", 0)

Reset ==
    /\ ExploreControls
    /\ Commit(Render(Cur, ResetFilters(Cur)), "user", 0)

NavbarExplore ==
    /\ route = "/explore"
    /\ url # <<>>
    /\ Commit(Render(Cur, NavbarExploreLink(Cur)), "user", 0)

ListingFulfilled ==
    /\ route = "/explore"
    /\ listing = "pending"
    /\ Commit(Render(Cur, OnListingData(Cur)), "fulfilled", 0)

ListingRejected ==
    /\ route = "/explore"
    /\ listing = "pending"
    /\ Commit(Render(Cur, OnListingError(Cur)), "rejected", 0)

SearchFulfilled ==
    \E r \in Pending :
        /\ route = "/explore"
        /\ Commit(Render(Cur, OnSearchData(Cur, r)), "fulfilled", 1)

SearchRejected ==
    \E r \in Pending :
        /\ route = "/explore"
        /\ Commit(Render(Cur, OnSearchError(Cur, r)), "rejected", 1)

(***************************************************************************)
(* Actions of the home page listing                                        *)
(***************************************************************************)
\* setTimeout(() => fetchProperties(), 100)
FaTimerFires ==
    /\ route = "/"
    /\ faMounted
    /\ faTimer = "armed"
    /\ faNotes' = faNotes
    /\ repoVersion' = repoVersion
    /\ FaCommit(FaFetchProperties([FaCur EXCEPT !.timer = "fired"], repoVersion), "timer")

\* another client changes the properties table; subscribers are notified
RepoChange ==
    /\ route = "/"
    /\ repoVersion < MaxChanges
    /\ repoVersion' = repoVersion + 1
    /\ faNotes' = IF faMounted THEN faNotes + 1 ELSE faNotes
    /\ FaCommit(FaCur, "change")

\* the postgres_changes callback
FaNotify ==
    /\ route = "/"
    /\ faMounted
    /\ faNotes > 0
    /\ faNotes' = faNotes - 1
    /\ repoVersion' = repoVersion
    /\ FaCommit(FaFetchProperties(FaCur, repoVersion), "notify")

\* the Try Again button of the error view
FaTryAgain ==
    /\ route = "/"
    /\ faMounted
    /\ FaView = "error"
    /\ UNCHANGED <<faNotes, repoVersion>>
    /\ FaCommit(FaFetchProperties(FaCur, repoVersion), "user")

\* the query is answered with the rows of some version since it was sent
FaFetchFulfilled ==
    \E i \in FaPending : \E v \in (faFetches[i].ver)..repoVersion :
        /\ route = "/"
        /\ UNCHANGED <<faNotes, repoVersion>>
        /\ FaCommit(FaOnData(FaCur, i, RepoAt(v)), "fulfilled")

FaFetchRejected ==
    \E i \in FaPending : \E kind \in ErrorKinds :
        /\ route = "/"
        /\ UNCHANGED <<faNotes, repoVersion>>
        /\ FaCommit(FaOnError(FaCur, i, kind), "rejected")

\* effect cleanup: clearTimeout, unsubscribe
FaUnmount ==
    /\ route = "/"
    /\ faMounted
    /\ faNotes' = 0
    /\ repoVersion' = repoVersion
    /\ FaCommit([FaCur EXCEPT !.mounted = FALSE,
                              !.timer = IF @ = "armed" THEN "cleared" ELSE @], "user")


(***************************************************************************)
(* The filter on drawn inputs                                              *)
(***************************************************************************)
FilterProps ==
    { [id |-> 1, price |-> 0, bedrooms |-> 0, bathrooms |-> 1, size |-> 0],
      [id |-> 2, price |-> 2, bedrooms |-> 1, bathrooms |-> 2, size |-> 2],
      [id |-> 3, price |-> 3, bedrooms |-> 2, bathrooms |-> 1, size |-> 3],
      [id |-> 4, price |-> 2000000, bedrooms |-> 1, bathrooms |-> 1, size |-> 1],
      [id |-> 5, price |-> 2000001, bedrooms |-> 2, bathrooms |-> 2, size |-> 2] }

FilterLists == UNION { [1..n -> FilterProps] : n \in 0..MaxLen }
FilterPriceRanges == {0, 2, 3} \X {2, 3, DefaultPriceMax}
FilterRooms == {Null, Num(0), Num(1), Num(2)}
FilterBaths == {Null, Num(1), Num(2)}
FilterSizes == {Null, Num(0), Num(2), Num(3)}

FilterApply ==
    /\ fpc = "start"
    /\ fOut' = FilterDisplay(fP, fPrice, fRooms, fBaths, fSize)
    /\ fOutSearch' = FilterSearch(fP, fPrice, fRooms, fBaths, fSize)
    /\ fpc' = "done"
    /\ UNCHANGED <<fP, fPrice, fRooms, fBaths, fSize, fOutAgain>>
    /\ UNCHANGED <<pageVars, searchVars, composeVars>>

\* the next render: the filter applied to its own output, criteria unchanged
FilterAgain ==
    /\ fpc = "done"
    /\ fOutAgain' = FilterDisplay(fOut, fPrice, fRooms, fBaths, fSize)
    /\ fpc' = "again"
    /\ UNCHANGED <<fP, fPrice, fRooms, fBaths, fSize, fOut, fOutSearch>>
    /\ UNCHANGED <<pageVars, searchVars, composeVars>>

(***************************************************************************)
(* The repository query on drawn inputs                                    *)
(***************************************************************************)
\* non-blank terms of one or two characters, pattern characters included
SearchTerms == UNION { [1..n -> {"a", "B", "b", "_", "%"}] : n \in 1..2 }

SearchProps ==
    { [id |-> 1, title |-> <<"a", "B">>, location |-> <<"x">>, description |-> <<>>,
       price |-> 1, bedrooms |-> 1, bathrooms |-> 1, size |-> 1],
      [id |-> 2, title |-> <<"x">>, location |-> <<"B", "a">>, description |-> <<"x">>,
       price |-> 2, bedrooms |-> 2, bathrooms |-> 2, size |-> 2],
      [id |-> 3, title |-> <<"x">>, location |-> <<>>, description |-> <<"b", "x", "A">>,
       price |-> 3, bedrooms |-> 1, bathrooms |-> 2, size |-> 3],
      [id |-> 4, title |-> <<"x">>, location |-> <<"x", "x">>, description |-> <<>>,
       price |-> 4, bedrooms |-> 1, bathrooms |-> 1, size |-> 1] }

SearchTables == UNION { [1..n -> SearchProps] : n \in 0..MaxRows }

SearchApply ==
    /\ spc = "start"
    /\ sOut' = QueryRows(sRows, sTerm)
    /\ spc' = "done"
    /\ UNCHANGED <<sTerm, sRows>>
    /\ UNCHANGED <<pageVars, filterVars, composeVars>>


(***************************************************************************)
(* The assistant's response composer.                                      *)
(* A text is a sequence of pieces. Text that is typed or stored (an input, *)
(* a title, an amenity name) is spelled one character per piece; the       *)
(* literal text of a response is spelled one word or one other character   *)
(* per piece, a character outside ASCII by its code point.                 *)
(***************************************************************************)
\* the value of propertyContext: null, or the value JSON.parse returned
NoContext == [present |-> FALSE, data |-> [none |-> TRUE]]
Parsed(data) == [present |-> TRUE, data |-> data]

Has(pc, f) == f \in DOMAIN pc.data

\* ${object.field} for a text field and for a number field
FieldText(pc, f) == IF Has(pc, f) THEN pc.data[f] ELSE <<"undefined">>
FieldNum(pc, f) == IF Has(pc, f) THEN <<ToString(pc.data[f])>> ELSE <<"undefined">>

\* input.includes(w1) || input.includes(w2) || ...
Includes(input, ws) == \E w \in ws : Contains(input, w)

\* the outcome of a call: the text returned by the return statement of a
\* rule, or an exception raised while that rule was evaluated
Returned(rule, text) == [threw |-> FALSE, rule |-> rule, text |-> text]
Threw(rule) == [threw |-> TRUE, rule |-> rule, text |-> <<>>]
NoMatch == [threw |-> FALSE, rule |-> "none", text |-> <<>>]

\* the keywords each rule of generateAIResponse looks for
Keywords ==
    [ garage |->
        { <<"g", "a", "r", "a", "g", "e">>,
          <<"p", "a", "r", "k", "i", "n", "g">> },
      neighborhood |->
        { <<"n", "e", "i", "g", "h", "b", "o", "r", "h", "o", "o", "d">>,
          <<"a", "r", "e", "a">>,
          <<"l", "o", "c", "a", "t", "i", "o", "n">> },
      price |->
        { <<"p", "r", "i", "c", "e">>,
          <<"c", "o", "s", "t">>,
          <<"a", "f", "f", "o", "r", "d">>,
          <<"b", "u", "d", "g", "e", "t">> },
      size |->
        { <<"s", "i", "z", "e">>,
          <<"s", "p", "a", "c", "e">>,
          <<"r", "o", "o", "m">> },
      school |->
        { <<"s", "c", "h", "o", "o", "l">>,
          <<"e", "d", "u", "c", "a", "t", "i", "o", "n">> },
      commute |->
        { <<"c", "o", "m", "m", "u", "t", "e">>,
          <<"w", "o", "r", "k">>,
          <<"t", "r", "a", "n", "s", "p", "o", "r", "t">> },
      investment |->
        { <<"i", "n", "v", "e", "s", "t", "m", "e", "n", "t">>,
          <<"v", "a", "l", "u", "e">>,
          <<"a", "p", "p", "r", "e", "c", "i", "a", "t", "e">> },
      move |->
        { <<"m", "o", "v", "e">>,
          <<"t", "i", "m", "e", "l", "i", "n", "e">>,
          <<"w", "h", "e", "n">> },
      compare |->
        { <<"c", "o", "m", "p", "a", "r", "e">>,
          <<"s", "i", "m", "i", "l", "a", "r">>,
          <<"o", "t", "h", "e", "r">> },
      visit |->
        { <<"v", "i", "s", "i", "t">>,
          <<"t", "o", "u", "r">>,
          <<"s", "e", "e">> } ]

\* amenities.some(amenity => amenity.toLowerCase().includes(word))
HasAmenity(pc, word) ==
    \E i \in 1..Len(pc.data.amenities) : Contains(Lower(pc.data.amenities[i]), word)

\* the garage test without toLowerCase()
HasGarageCaseSensitive(pc) ==
    \E i \in 1..Len(pc.data.amenities) : Contains(pc.data.amenities[i], <<"g", "a", "r", "a", "g", "e">>)

HasGarage(pc) == HasAmenity(pc, <<"g", "a", "r", "a", "g", "e">>)

GarageYesText(pc) ==
    <<"Great", " ", "news", "!", " ", "*", "*">> \o
    FieldText(pc, "title") \o
    <<"*", "*", " ", "includes", " ", "a", " ", "garage", ",", " ",
      "which", " ", "is", " ", "a", " ", "huge", " ", "advantage", " ",
      "-", " ", "you", "'", "ll", " ", "have", " ", "secure", " ",
      "parking", ",", " ", "weather", " ", "protection", " ", "for", " ",
      "your", " ", "vehicle", ",", " ", "and", " ", "additional", " ",
      "storage", " ", "space", ".", " ", "This", " ", "is", " ", "a", " ",
      "valuable", " ", "feature", " ", "that", " ", "many", " ",
      "properties", " ", "in", " ", "the", " ", "area", " ", "don", "'",
      "t", " ", "offer", "!">>

GarageNoText(pc) ==
    <<"*", "*">> \o
    FieldText(pc, "title") \o
    <<"*", "*", " ", "doesn", "'", "t", " ", "include", " ", "a", " ",
      "garage", ",", " ", "but", " ", "I", " ", "can", " ", "help", " ",
      "you", " ", "understand", " ", "the", " ", "parking", " ", "options",
      " ", "available", ".", " ", "Many", " ", "properties", " ", "in",
      " ">> \o
    FieldText(pc, "location") \o
    <<" ", "offer", " ", "street", " ", "parking", " ", "or", " ",
      "nearby", " ", "parking", " ", "facilities", ".", " ", "Would", " ",
      "you", " ", "like", " ", "me", " ", "to", " ", "help", " ", "you",
      " ", "find", " ", "similar", " ", "properties", " ", "that", " ",
      "do", " ", "include", " ", "a", " ", "garage", "?">>

DefaultText ==
    <<"That", "'", "s", " ", "a", " ", "great", " ", "question", "!", " ",
      "I", "'", "m", " ", "here", " ", "to", " ", "help", " ", "you", " ",
      "make", " ", "the", " ", "best", " ", "decision", " ", "about", " ",
      "this", " ", "property", ".", " ", "Whether", " ", "you", " ",
      "want", " ", "to", " ", "know", " ", "more", " ", "about", " ",
      "the", " ", "specific", " ", "features", ",", " ", "the", " ",
      "neighborhood", ",", " ", "financing", " ", "options", ",", " ",
      "or", " ", "how", " ", "it", " ", "compares", " ", "to", " ",
      "other", " ", "properties", ",", " ", "I", " ", "can", " ",
      "provide", " ", "detailed", " ", "insights", ".", " ", "What", " ",
      "specific", " ", "aspect", " ", "would", " ", "you", " ", "like",
      " ", "to", " ", "explore", " ", "further", "?", " ", "I", " ", "can",
      " ", "also", " ", "help", " ", "you", " ", "schedule", " ", "a", " ",
      "viewing", " ", "or", " ", "connect", " ", "you", " ", "with", " ",
      "additional", " ", "resources", ".">>

ParseFailedText ==
    <<"I", "'", "d", " ", "be", " ", "happy", " ", "to", " ", "help", " ",
      "you", " ", "with", " ", "this", " ", "property", "!", " ", "Could",
      " ", "you", " ", "tell", " ", "me", " ", "more", " ", "about", " ",
      "what", " ", "you", "'", "re", " ", "looking", " ", "for", "?">>

\* the rules inside if (propertyContext) { ... }, in code order
ContextResponse(input, pc) ==
    LET \* Math.round(price / size) interpolated into the template
        PerSquareFoot ==
            IF ~Has(pc, "size") THEN <<"NaN">>
            ELSE IF pc.data.size = 0
                 THEN (IF pc.data.price = 0 THEN <<"NaN">> ELSE <<"Infinity">>)
                 ELSE <<ToString((2 * pc.data.price + pc.data.size)
                                 \div (2 * pc.data.size))>>
        NeighborhoodText ==
            <<"*", "*">> \o
            FieldText(pc, "location") \o
            <<"*", "*", " ", "is", " ", "a", " ", "fantastic", " ",
              "location", "!", " ", "This", " ", "area", " ", "offers",
              " ", "great", " ", "convenience", " ", "and", " ",
              "lifestyle", " ", "benefits", ".", " ", "I", "'", "d", " ",
              "be", " ", "happy", " ", "to", " ", "tell", " ", "you", " ",
              "about", " ", "nearby", " ", "schools", ",", " ", "shopping",
              " ", "centers", ",", " ", "restaurants", ",", " ", "public",
              " ", "transportation", ",", " ", "and", " ", "safety", " ",
              "ratings", ".", " ", "What", " ", "specific", " ", "aspects",
              " ", "of", " ", "the", " ", "neighborhood", " ", "are", " ",
              "most", " ", "important", " ", "to", " ", "you", " ", "-",
              " ", "schools", ",", " ", "commute", " ", "time", ",", " ",
              "entertainment", ",", " ", "or", " ", "something", " ",
              "else", "?">>
        PriceText ==
            <<"At", " ", "*", "*", "$">> \o
            FieldNum(pc, "price") \o
            <<"*", "*", ",", " ", "this", " ", "property", " ", "is", " ",
              "competitively", " ", "priced", " ", "for", " ", "a", " ">> \o
            FieldNum(pc, "size") \o
            <<" ", "sqft", " ">> \o
            FieldText(pc, "type") \o
            <<" ", "in", " ">> \o
            FieldText(pc, "location") \o
            <<".", " ", "That", " ", "works", " ", "out", " ", "to", " ",
              "about", " ", "$">> \o
            PerSquareFoot \o
            <<" ", "per", " ", "square", " ", "foot", ".", " ", "I", " ",
              "can", " ", "help", " ", "you", " ", "understand", " ",
              "the", " ", "total", " ", "cost", " ", "of", " ",
              "ownership", ",", " ", "including", " ", "potential", " ",
              "HOA", " ", "fees", ",", " ", "property", " ", "taxes", ",",
              " ", "and", " ", "utilities", ".", " ", "Are", " ", "you",
              " ", "looking", " ", "to", " ", "buy", " ", "or", " ",
              "rent", "?", " ", "Would", " ", "you", " ", "like", " ",
              "me", " ", "to", " ", "explore", " ", "financing", " ",
              "options", "?">>
        SizeText ==
            <<"This", " ", "property", " ", "offers", " ", "*", "*">> \o
            FieldNum(pc, "size") \o
            <<" ", "sqft", "*", "*", " ", "with", " ">> \o
            FieldNum(pc, "bedrooms") \o
            <<" ", "bedrooms", " ", "and", " ">> \o
            FieldNum(pc, "bathrooms") \o
            <<" ", "bathrooms", " ", "-", " ", "that", "'", "s", " ",
              "excellent", " ", "space", "!", " ", "The", " ", "layout",
              " ", "is", " ", "designed", " ", "to", " ", "maximize", " ",
              "functionality", " ", "and", " ", "give", " ", "you", " ",
              "comfortable", " ", "living", " ", "areas", ".", " ", "Are",
              " ", "you", " ", "thinking", " ", "about", " ", "specific",
              " ", "furniture", " ", "arrangements", ",", " ", "or", " ",
              "do", " ", "you", " ", "need", " ", "space", " ", "for", " ",
              "a", " ", "home", " ", "office", ",", " ", "family", " ",
              "activities", ",", " ", "or", " ", "storage", "?">>
    IN  IF Includes(input, Keywords.garage)
        THEN (IF ~Has(pc, "amenities") THEN Threw("garage")
              ELSE IF HasGarage(pc) THEN Returned("garage", GarageYesText(pc))
              ELSE Returned("garage", GarageNoText(pc)))
        ELSE IF Includes(input, Keywords.neighborhood)
        THEN Returned("neighborhood", NeighborhoodText)
        ELSE IF Includes(input, Keywords.price)
        THEN (IF ~Has(pc, "price") THEN Threw("price")
              ELSE Returned("price", PriceText))
        ELSE IF Includes(input, Keywords.size)
        THEN Returned("size", SizeText)
        ELSE NoMatch

\* the rules after the block, in code order, and the default response
GeneralResponse(input) ==
    LET
        SchoolText ==
            <<"Education", " ", "is", " ", "so", " ", "important", "!",
              " ", "This", " ", "area", " ", "has", " ", "access", " ",
              "to", " ", "quality", " ", "schools", ",", " ", "and", " ",
              "I", " ", "can", " ", "provide", " ", "detailed", " ",
              "information", " ", "about", " ", "school", " ", "ratings",
              ",", " ", "districts", ",", " ", "and", " ", "nearby", " ",
              "educational", " ", "facilities", ".", " ", "Are", " ",
              "you", " ", "looking", " ", "for", " ", "elementary", ",",
              " ", "middle", ",", " ", "or", " ", "high", " ", "schools",
              "?", " ", "Or", " ", "perhaps", " ", "you", "'", "re", " ",
              "interested", " ", "in", " ", "colleges", " ", "and", " ",
              "universities", " ", "in", " ", "the", " ", "area", "?">>
        CommuteText ==
            <<"Commute", " ", "convenience", " ", "can", " ", "make", " ",
              "or", " ", "break", " ", "your", " ", "daily", " ",
              "routine", "!", " ", "This", " ", "location", " ", "offers",
              " ", "good", " ", "transportation", " ", "access", ".", " ",
              "I", " ", "can", " ", "help", " ", "you", " ", "understand",
              " ", "commute", " ", "times", " ", "to", " ", "major", " ",
              "business", " ", "districts", ",", " ", "public", " ",
              "transportation", " ", "options", ",", " ", "and", " ",
              "traffic", " ", "patterns", ".", " ", "Where", " ", "would",
              " ", "you", " ", "typically", " ", "be", " ", "commuting",
              " ", "to", "?", " ", "That", " ", "way", " ", "I", " ",
              "can", " ", "give", " ", "you", " ", "specific", " ",
              "travel", " ", "time", " ", "estimates", ".">>
        InvestmentText ==
            <<"This", " ", "is", " ", "a", " ", "smart", " ", "investment",
              " ", "question", "!", " ", "This", " ", "property", " ",
              "is", " ", "in", " ", "an", " ", "area", " ", "with", " ",
              "strong", " ", "market", " ", "fundamentals", " ", "and",
              " ", "good", " ", "appreciation", " ", "potential", ".", " ",
              "Factors", " ", "like", " ", "location", ",", " ", "local",
              " ", "development", ",", " ", "school", " ", "districts",
              ",", " ", "and", " ", "neighborhood", " ", "trends", " ",
              "all", " ", "contribute", " ", "to", " ", "long", "-",
              "term", " ", "value", ".", " ", "Would", " ", "you", " ",
              "like", " ", "me", " ", "to", " ", "explain", " ", "the",
              " ", "market", " ", "trends", " ", "in", " ", "this", " ",
              "area", " ", "or", " ", "discuss", " ", "how", " ", "this",
              " ", "property", " ", "compares", " ", "to", " ", "recent",
              " ", "sales", "?">>
        MoveText ==
            <<"Timing", " ", "is", " ", "everything", " ", "in", " ",
              "real", " ", "estate", "!", " ", "If", " ", "you", "'", "re",
              " ", "ready", " ", "to", " ", "move", " ", "forward", ",",
              " ", "I", " ", "can", " ", "help", " ", "you", " ",
              "understand", " ", "the", " ", "process", " ", "timeline",
              " ", "-", " ", "from", " ", "making", " ", "an", " ",
              "offer", " ", "to", " ", "closing", ".", " ", "Properties",
              " ", "in", " ", "this", " ", "area", " ", "and", " ",
              "price", " ", "range", " ", "tend", " ", "to", " ", "move",
              " ", "quickly", ",", " ", "so", " ", "it", "'", "s", " ",
              "good", " ", "to", " ", "be", " ", "prepared", ".", " ",
              "Are", " ", "you", " ", "looking", " ", "to", " ", "move",
              " ", "in", " ", "soon", ",", " ", "or", " ", "do", " ",
              "you", " ", "have", " ", "flexibility", " ", "with", " ",
              "your", " ", "timeline", "?">>
        CompareText ==
            <<"Smart", " ", "approach", " ", "to", " ", "compare", " ",
              "options", "!", " ", "I", " ", "can", " ", "help", " ",
              "you", " ", "evaluate", " ", "this", " ", "property", " ",
              "against", " ", "similar", " ", "listings", " ", "in", " ",
              "the", " ", "area", ".", " ", "We", " ", "can", " ",
              "compare", " ", "factors", " ", "like", " ", "price", " ",
              "per", " ", "square", " ", "foot", ",", " ", "amenities",
              ",", " ", "location", " ", "benefits", ",", " ", "and", " ",
              "overall", " ", "value", ".", " ", "What", " ", "specific",
              " ", "features", " ", "are", " ", "most", " ", "important",
              " ", "to", " ", "you", " ", "in", " ", "your", " ",
              "comparison", "?", " ", "This", " ", "will", " ", "help",
              " ", "me", " ", "find", " ", "the", " ", "best", " ",
              "alternatives", " ", "to", " ", "show", " ", "you", ".">>
        VisitText ==
            <<"Absolutely", "!", " ", "Seeing", " ", "the", " ",
              "property", " ", "in", " ", "person", " ", "is", " ", "the",
              " ", "best", " ", "way", " ", "to", " ", "get", " ", "a",
              " ", "feel", " ", "for", " ", "it", ".", " ", "I", " ",
              "can", " ", "help", " ", "coordinate", " ", "a", " ",
              "viewing", " ", "or", " ", "virtual", " ", "tour", ".", " ",
              "During", " ", "the", " ", "visit", ",", " ", "I", " ",
              "recommend", " ", "checking", " ", "the", " ", "natural",
              " ", "light", ",", " ", "storage", " ", "spaces", ",", " ",
              "neighborhood", " ", "noise", " ", "levels", ",", " ", "and",
              " ", "getting", " ", "a", " ", "sense", " ", "of", " ",
              "the", " ", "community", ".", " ", "Would", " ", "you", " ",
              "prefer", " ", "a", " ", "private", " ", "showing", " ",
              "or", " ", "are", " ", "you", " ", "comfortable", " ",
              "with", " ", "an", " ", "open", " ", "house", "?">>
    IN  IF Includes(input, Keywords.school) THEN Returned("school", SchoolText)
        ELSE IF Includes(input, Keywords.commute) THEN Returned("commute", CommuteText)
        ELSE IF Includes(input, Keywords.investment)
        THEN Returned("investment", InvestmentText)
        ELSE IF Includes(input, Keywords.move) THEN Returned("move", MoveText)
        ELSE IF Includes(input, Keywords.compare) THEN Returned("compare", CompareText)
        ELSE IF Includes(input, Keywords.visit) THEN Returned("visit", VisitText)
        ELSE Returned("default", DefaultText)

\* generateAIResponse with the general rules tested before the context rules
GenerateAIResponseGeneralFirst(userInput, pc) ==
    LET input == Lower(userInput)
        g == GeneralResponse(input)
        c == IF pc.present THEN ContextResponse(input, pc) ELSE NoMatch
    IN  IF g.rule # "default" THEN g
        ELSE IF c.rule # "none" THEN c ELSE g

\* generateAIResponse without the if (propertyContext) guard
GenerateAIResponseUnguarded(userInput, pc) ==
    LET input == Lower(userInput)
        c == ContextResponse(input, pc)
    IN  IF c.rule # "none" THEN c ELSE GeneralResponse(input)

\* generateAIResponse(userInput), reading the propertyContext of its closure
GenerateAIResponse(userInput, pc) ==
    LET input == Lower(userInput)
        c == IF pc.present THEN ContextResponse(input, pc) ELSE NoMatch
    IN  IF c.rule # "none" THEN c ELSE GeneralResponse(input)

\* ---- the transfer state: the string stored for the property ----
\* a stored string is not JSON, or is the JSON of null, or of an object
NotJson == [kind |-> "invalid", data |-> [none |-> TRUE]]
JsonNull == [kind |-> "null", data |-> [none |-> TRUE]]
JsonObject(data) == [kind |-> "object", data |-> data]

\* try { setPropertyContext(JSON.parse(propertyData)) } catch { }
ParseContext(d) == IF d.kind = "object" THEN Parsed(d.data) ELSE NoContext

\* the summary generatePropertyResponse builds for a parsed property that
\* has the fields the amenity and design tests read
PropertySummary(p) ==
    LET Line(cond, text) == IF cond THEN text ELSE <<>>
        Mentions(text, word) == Contains(Lower(text), word)
        IsModern ==
            \/ Mentions(p.data.type, <<"m", "o", "d", "e", "r", "n">>)
            \/ Mentions(p.data.type, <<"c", "o", "n", "t", "e", "m", "p", "o", "r", "a", "r", "y">>)
            \/ Mentions(p.data.description, <<"m", "o", "d", "e", "r", "n">>)
        YearFraming ==
            IF Has(p, "year_built") /\ p.data.year_built > 2010
            THEN <<"relatively", " ", "new">>
            ELSE <<"has", " ", "character">>
        OpeningText ==
            <<"U+1F3E1", " ", "Excellent", " ", "choice", "!", " ", "I",
              "'", "ve", " ", "reviewed", " ", "*", "*">> \o
            FieldText(p, "title") \o
            <<"*", "*", " ", "and", " ", "I", "'", "m", " ", "excited",
              " ", "to", " ", "help", " ", "you", " ", "explore", " ",
              "why", " ", "it", " ", "could", " ", "be", " ", "perfect",
              " ", "for", " ", "you", ".", "\n", "\n">>
        HighlightsHeading ==
            <<"U+2728", " ", "*", "*", "Key", " ", "Highlights", ":", "*",
              "*", "\n">>
        BalconyLine ==
            <<"U+2022", " ", "The", " ", "balcony", " ", "is", " ",
              "perfect", " ", "for", " ", "morning", " ", "coffee", " ",
              "or", " ", "evening", " ", "relaxation", " ", "with", " ",
              "great", " ", "views", "\n">>
        GarageLine ==
            <<"U+2022", " ", "Having", " ", "a", " ", "garage", " ",
              "provides", " ", "secure", " ", "parking", " ", "and", " ",
              "extra", " ", "storage", " ", "space", "\n">>
        PoolLine ==
            <<"U+2022", " ", "The", " ", "pool", " ", "area", " ", "is",
              " ", "ideal", " ", "for", " ", "recreation", " ", "and", " ",
              "adds", " ", "significant", " ", "property", " ", "value",
              "\n">>
        GymLine ==
            <<"U+2022", " ", "The", " ", "fitness", " ", "center", " ",
              "means", " ", "you", " ", "can", " ", "maintain", " ",
              "your", " ", "workout", " ", "routine", " ", "without", " ",
              "leaving", " ", "home", "\n">>
        PetLine ==
            <<"U+2022", " ", "Being", " ", "pet", "-", "friendly", " ",
              "makes", " ", "this", " ", "perfect", " ", "if", " ", "you",
              " ", "have", " ", "furry", " ", "family", " ", "members",
              "\n">>
        ModernLine ==
            <<"U+2022", " ", "The", " ", "modern", " ", "design", " ",
              "ensures", " ", "you", "'", "ll", " ", "have", " ",
              "contemporary", " ", "amenities", " ", "and", " ",
              "efficient", " ", "layouts", "\n">>
        SizeLine ==
            <<"U+2022", " ", "At", " ">> \o
            FieldNum(p, "size") \o
            <<" ", "sqft", " ", "with", " ">> \o
            FieldNum(p, "bedrooms") \o
            <<" ", "bedrooms", " ", "and", " ">> \o
            FieldNum(p, "bathrooms") \o
            <<" ", "bathrooms", ",", " ", "it", " ", "offers", " ",
              "great", " ", "space", "\n">>
        BuiltLine ==
            <<"U+2022", " ", "Built", " ", "in", " ">> \o
            FieldNum(p, "year_built") \o
            <<",", " ", "it", "'", "s", " ", "well", "-", "maintained",
              " ", "and", " ">> \o
            YearFraming \o
            <<"\n">>
        LocatedLine ==
            <<"U+2022", " ", "Located", " ", "in", " ">> \o
            FieldText(p, "location") \o
            <<",", " ", "offering", " ", "great", " ", "convenience", " ",
              "and", " ", "lifestyle", " ", "benefits", "\n">>
        QuestionsHeading ==
            <<"\n", "U+1F914", " ", "*", "*", "Questions", " ", "to", " ",
              "help", " ", "you", " ", "decide", ":", "*", "*", "\n">>
        QuestionOne ==
            <<"U+2022", " ", "What", "'", "s", " ", "most", " ",
              "important", " ", "to", " ", "you", " ", "in", " ", "your",
              " ", "next", " ", "home", " ", "-", " ", "location", ",",
              " ", "space", ",", " ", "or", " ", "specific", " ",
              "amenities", "?", "\n">>
        QuestionTwo ==
            <<"U+2022", " ", "Are", " ", "you", " ", "planning", " ", "to",
              " ", "move", " ", "in", " ", "soon", ",", " ", "or", " ",
              "are", " ", "you", " ", "still", " ", "in", " ", "the", " ",
              "early", " ", "research", " ", "phase", "?", "\n">>
        QuestionThree ==
            <<"U+2022", " ", "Would", " ", "you", " ", "like", " ", "me",
              " ", "to", " ", "explain", " ", "more", " ", "about", " ",
              "the", " ", "neighborhood", " ", "or", " ", "nearby", " ",
              "amenities", "?", "\n", "\n">>
        ClosingText ==
            <<"I", "'", "m", " ", "here", " ", "to", " ", "answer", " ",
              "any", " ", "specific", " ", "questions", " ", "about", " ",
              "this", " ", "property", ",", " ", "the", " ", "area", ",",
              " ", "financing", " ", "options", ",", " ", "or", " ",
              "help", " ", "you", " ", "compare", " ", "it", " ", "with",
              " ", "other", " ", "listings", ".", " ", "What", " ",
              "would", " ", "you", " ", "like", " ", "to", " ", "know",
              " ", "more", " ", "about", "?", " ", "U+1F3E0">>
    IN  OpeningText \o HighlightsHeading
        \o Line(HasAmenity(p, <<"b", "a", "l", "c", "o", "n", "y">>), BalconyLine)
        \o Line(HasAmenity(p, <<"g", "a", "r", "a", "g", "e">>), GarageLine)
        \o Line(HasAmenity(p, <<"p", "o", "o", "l">>), PoolLine)
        \o Line(HasAmenity(p, <<"g", "y", "m">>) \/ HasAmenity(p, <<"f", "i", "t", "n", "e", "s", "s">>), GymLine)
        \o Line(HasAmenity(p, <<"p", "e", "t", " ", "f", "r", "i", "e", "n", "d", "l", "y">>),
                PetLine)
        \o Line(IsModern, ModernLine)
        \o SizeLine \o BuiltLine \o LocatedLine
        \o QuestionsHeading \o QuestionOne \o QuestionTwo \o QuestionThree
        \o ClosingText

\* generatePropertyResponse returning its parse-failure text for every string
GeneratePropertyResponseFallback(d) == Returned("parse", ParseFailedText)

\* generatePropertyResponse(propertyData)
GeneratePropertyResponse(d) ==
    LET p == Parsed(d.data)
        Mentions(text, word) == Contains(Lower(text), word)
        \* isModern reads type, and description when the type does not decide
        IsModernThrows ==
            \/ ~Has(p, "type")
            \/ /\ ~Has(p, "description")
               /\ ~Mentions(p.data.type, <<"m", "o", "d", "e", "r", "n">>)
               /\ ~Mentions(p.data.type, <<"c", "o", "n", "t", "e", "m", "p", "o", "r", "a", "r", "y">>)
    IN  IF d.kind = "invalid" THEN Returned("parse", ParseFailedText)
        ELSE IF d.kind = "null" THEN Threw("initial")
        ELSE IF ~Has(p, "amenities") \/ IsModernThrows THEN Threw("initial")
        ELSE Returned("initial", PropertySummary(p))

(***************************************************************************)
(* The composer on drawn inputs                                            *)
(***************************************************************************)
RECURSIVE Join(_)
\* words joined by single spaces
Join(ps) ==
    IF ps = <<>> THEN <<>>
    ELSE IF Len(ps) = 1 THEN ps[1]
    ELSE ps[1] \o <<" ">> \o Join(Tail(ps))

\* every keyword of the rules and words that hold or lack one, alone; a few
\* of them combined into longer inputs
ComposeInputs ==
    LET words ==
            { <<"g", "a", "r", "a", "g", "e">>,
              <<"p", "a", "r", "k", "i", "n", "g">>,
              <<"n", "e", "i", "g", "h", "b", "o", "r", "h", "o", "o", "d">>,
              <<"a", "r", "e", "a">>,
              <<"l", "o", "c", "a", "t", "i", "o", "n">>,
              <<"p", "r", "i", "c", "e">>,
              <<"c", "o", "s", "t">>,
              <<"a", "f", "f", "o", "r", "d">>,
              <<"b", "u", "d", "g", "e", "t">>,
              <<"s", "i", "z", "e">>,
              <<"s", "p", "a", "c", "e">>,
              <<"r", "o", "o", "m">>,
              <<"s", "c", "h", "o", "o", "l">>,
              <<"e", "d", "u", "c", "a", "t", "i", "o", "n">>,
              <<"c", "o", "m", "m", "u", "t", "e">>,
              <<"w", "o", "r", "k">>,
              <<"t", "r", "a", "n", "s", "p", "o", "r", "t">>,
              <<"i", "n", "v", "e", "s", "t", "m", "e", "n", "t">>,
              <<"v", "a", "l", "u", "e">>,
              <<"a", "p", "p", "r", "e", "c", "i", "a", "t", "e">>,
              <<"m", "o", "v", "e">>,
              <<"t", "i", "m", "e", "l", "i", "n", "e">>,
              <<"w", "h", "e", "n">>,
              <<"c", "o", "m", "p", "a", "r", "e">>,
              <<"s", "i", "m", "i", "l", "a", "r">>,
              <<"o", "t", "h", "e", "r">>,
              <<"v", "i", "s", "i", "t">>,
              <<"t", "o", "u", "r">>,
              <<"s", "e", "e">>,
              <<"h", "e", "l", "l", "o">>,
              <<"B", "a", "t", "h", "r", "o", "o", "m">>,
              <<"P", "A", "R", "K", "I", "N", "G">> }
        phrases ==
            { <<"g", "a", "r", "a", "g", "e">>,
              <<"A", "r", "e", "a">>,
              <<"p", "r", "i", "c", "e">>,
              <<"r", "o", "o", "m">>,
              <<"s", "c", "h", "o", "o", "l">>,
              <<"w", "o", "r", "k">>,
              <<"v", "a", "l", "u", "e">>,
              <<"w", "h", "e", "n">>,
              <<"o", "t", "h", "e", "r">>,
              <<"s", "e", "e">>,
              <<"h", "e", "l", "l", "o">>,
              <<"B", "a", "t", "h", "r", "o", "o", "m">> }
    IN  words \cup { Join(ps) : ps \in UNION { [1..n -> phrases] : n \in 0..MaxPhrases } }

AmenityLists ==
    { <<>>,
      <<<<"G", "a", "r", "a", "g", "e">>>>,
      <<<<"g", "y", "m">>>>,
      <<<<"B", "a", "l", "c", "o", "n", "y">>,
        <<"P", "o", "o", "l">>>>,
      <<<<"F", "i", "t", "n", "e", "s", "s", " ", "C", "e", "n", "t", "e", "r">>,
        <<"P", "e", "t", " ", "F", "r", "i", "e", "n", "d", "l", "y">>>>,
      <<<<"2", "-", "c", "a", "r", " ", "g", "a", "r", "a", "g", "e">>,
        <<"P", "o", "o", "l">>,
        <<"B", "a", "l", "c", "o", "n", "y">>>> }

PropertyData(amenities, type, year, size) ==
    [title |-> <<"L", "o", "f", "t">>, location |-> <<"S", "o", "H", "o">>,
     price |-> 900, type |-> type, bedrooms |-> 2, bathrooms |-> 1, size |-> size,
     year_built |-> year, amenities |-> amenities,
     description |-> <<"A", " ", "b", "r", "i", "g", "h", "t", " ", "h", "o", "m", "e">>, images |-> <<>>]

Without(data, f) == [g \in DOMAIN data \ {f} |-> data[g]]

\* a stored property as the detail page would serialise it
WellFormed ==
    { PropertyData(a, t, y, s) :
        a \in AmenityLists,
        t \in { <<"H", "o", "u", "s", "e">>, <<"M", "o", "d", "e", "r", "n", " ", "L", "o", "f", "t">> },
        y \in {2010, 2011}, s \in {0, 60} }

\* a stored object that lacks a field
Malformed ==
    { Without(PropertyData(<<<<"G", "a", "r", "a", "g", "e">>>>, <<"H", "o", "u", "s", "e">>, 2011, 60), f) :
        f \in {"amenities", "price", "type", "description", "title", "size"} }

NoTransfer == [kind |-> "absent", data |-> [none |-> TRUE]]

\* the values propertyContext takes when a message is answered
ReplyContexts ==
    {NoContext}
    \cup { Parsed(PropertyData(a, <<"H", "o", "u", "s", "e">>, 2011, s)) :
             a \in { <<>>, <<<<"G", "a", "r", "a", "g", "e">>>>, <<<<"P", "o", "o", "l">>>>,
                     <<<<"P", "o", "o", "l">>, <<"2", "-", "c", "a", "r", " ", "g", "a", "r", "a", "g", "e">>>> },
             s \in {0, 60} }
    \cup { Parsed(d) : d \in Malformed }

\* the strings generatePropertyResponse is called with
InitialData ==
    {NotJson, JsonNull} \cup { JsonObject(d) : d \in WellFormed \cup Malformed }

ComposeReply ==
    /\ cpc = "start" /\ cMode = "reply"
    /\ cOut' = GenerateAIResponse(cInput, cCtx)
    /\ cpc' = "done"
    /\ UNCHANGED <<cMode, cInput, cCtx, cData>>
    /\ UNCHANGED <<pageVars, filterVars, searchVars>>

ComposeInitial ==
    /\ cpc = "start" /\ cMode = "initial"
    /\ cOut' = GeneratePropertyResponse(cData)
    /\ cpc' = "done"
    /\ UNCHANGED <<cMode, cInput, cCtx, cData>>
    /\ UNCHANGED <<pageVars, filterVars, searchVars>>

(***************************************************************************)
(* SmartAssistantPage                                                      *)
(***************************************************************************)
ACur ==
    [messages |-> messages, inputText |-> inputText, isTyping |-> isTyping,
     propertyContext |-> propertyContext, seedTimer |-> seedTimer,
     replyTimers |-> replyTimers, store |-> store]

\* sessionStorage.getItem: null or the stored string
NoItem == [present |-> FALSE, text |-> <<>>]
Item(text) == [present |-> TRUE, text |-> text]
EmptyStore == [userMessage |-> NoItem, propertyData |-> NoTransfer]

NoSeedTimer == [armed |-> FALSE, data |-> NoTransfer]

UserMessage(text) == [sender |-> "user", text |-> text]
AssistantMessage(text) == [sender |-> "assistant", text |-> text]

\* the useState initial values, with the transfer items another page left
AssistantInitial(st) ==
    [messages |-> <<>>, inputText |-> <<>>, isTyping |-> FALSE,
     propertyContext |-> NoContext, seedTimer |-> NoSeedTimer,
     replyTimers |-> <<>>, store |-> st]

\* the mount effect: seeds the session from the transfer items
SeedEffect(a) ==
    IF /\ a.store.userMessage.present /\ a.store.userMessage.text # <<>>
       /\ a.store.propertyData.kind # "absent"
    THEN [a EXCEPT !.store = EmptyStore,
                   !.propertyContext = IF a.store.propertyData.kind = "invalid"
                                       THEN @ ELSE ParseContext(a.store.propertyData),
                   !.messages = <<UserMessage(a.store.userMessage.text)>>,
                   !.isTyping = TRUE,
                   !.seedTimer = [armed |-> TRUE, data |-> a.store.propertyData]]
    ELSE a

\* the callback of the seed timer
SeedTimerCallback(a) ==
    LET out == GeneratePropertyResponse(a.seedTimer.data)
    IN  IF out.threw THEN [a EXCEPT !.seedTimer = NoSeedTimer]
        ELSE [a EXCEPT !.seedTimer = NoSeedTimer,
                       !.messages = Append(@, AssistantMessage(out.text)),
                       !.isTyping = FALSE]

\* handleSendMessage with setMessages([userMessage])
HandleSendMessageReplacing(a) ==
    IF IsBlank(a.inputText) THEN a
    ELSE [a EXCEPT !.messages = <<UserMessage(a.inputText)>>,
                   !.inputText = <<>>,
                   !.isTyping = TRUE,
                   !.replyTimers = Append(@, [input |-> a.inputText,
                                              context |-> a.propertyContext])]

\* handleSendMessage whose reply closure holds the first render's context
HandleSendMessageStale(a) ==
    IF IsBlank(a.inputText) THEN a
    ELSE [a EXCEPT !.messages = Append(@, UserMessage(a.inputText)),
                   !.inputText = <<>>,
                   !.isTyping = TRUE,
                   !.replyTimers = Append(@, [input |-> a.inputText,
                                              context |-> NoContext])]

\* handleSendMessage
HandleSendMessage(a) ==
    IF IsBlank(a.inputText) THEN a
    ELSE [a EXCEPT !.messages = Append(@, UserMessage(a.inputText)),
                   !.inputText = <<>>,
                   !.isTyping = TRUE,
                   !.replyTimers = Append(@, [input |-> a.inputText,
                                              context |-> a.propertyContext])]

\* the callback of the oldest reply timer
ReplyTimerCallback(a) ==
    LET t == Head(a.replyTimers)
        out == GenerateAIResponse(t.input, t.context)
    IN  IF out.threw THEN [a EXCEPT !.replyTimers = Tail(@)]
        ELSE [a EXCEPT !.replyTimers = Tail(@),
                       !.messages = Append(@, AssistantMessage(out.text)),
                       !.isTyping = FALSE]

\* the send button is disabled={!inputText.trim() || isTyping}
SendEnabled == ~IsBlank(inputText) /\ ~isTyping

AssistantTexts ==
    { <<>>, <<" ">>, <<"h", "i">>,
      <<"G", "a", "r", "a", "g", "e", "?">> }

\* what another page may have left in sessionStorage
TransferStores ==
    { EmptyStore,
      [userMessage |-> Item(<<"h", "i">>), propertyData |-> NoTransfer],
      [userMessage |-> Item(<<>>), propertyData |-> NotJson] }
    \cup { [userMessage |-> Item(<<"h", "i">>), propertyData |-> d] :
             d \in { NotJson, JsonNull,
                     JsonObject(PropertyData(<<<<"G", "a", "r", "a", "g", "e">>>>,
                                             <<"H", "o", "u", "s", "e">>, 2011, 60)),
                     JsonObject(PropertyData(<<<<"P", "o", "o", "l">>>>,
                                             <<"H", "o", "u", "s", "e">>, 2010, 60)),
                     JsonObject(Without(PropertyData(<<>>, <<"H", "o", "u", "s", "e">>,
                                                     2011, 60), "amenities")) } }

ACommit(a) ==
    /\ messages' = a.messages
    /\ inputText' = a.inputText
    /\ isTyping' = a.isTyping
    /\ propertyContext' = a.propertyContext
    /\ seedTimer' = a.seedTimer
    /\ replyTimers' = a.replyTimers
    /\ store' = a.store
    /\ UNCHANGED <<route, exploreVars, featuredVars, observed, drawnVars, adminVars>>

AssistantReady == route = "/smart-assistant" /\ aPhase = "ready"

\* the effects of the first render run
AssistantMount ==
    /\ route = "/smart-assistant" /\ aPhase = "mounting"
    /\ aPhase' = "ready"
    /\ aSends' = aSends
    /\ ACommit(SeedEffect(ACur))

\* onChange of the input box
InputChange ==
    /\ AssistantReady
    /\ \E v \in AssistantTexts :
          /\ v # inputText
          /\ ACommit([ACur EXCEPT !.inputText = v])
    /\ UNCHANGED <<aPhase, aSends>>

\* a click on the send button
SendClick ==
    /\ AssistantReady /\ SendEnabled
    /\ aSends < MaxSends
    /\ aSends' = aSends + 1
    /\ aPhase' = aPhase
    /\ ACommit(HandleSendMessage(ACur))

\* Enter pressed in the input box (handleKeyPress), without Shift
EnterKey ==
    /\ AssistantReady
    /\ aSends < MaxSends
    /\ aSends' = IF IsBlank(inputText) THEN aSends ELSE aSends + 1
    /\ aPhase' = aPhase
    /\ ACommit(HandleSendMessage(ACur))

SeedTimerFires ==
    /\ AssistantReady /\ seedTimer.armed
    /\ ACommit(SeedTimerCallback(ACur))
    /\ UNCHANGED <<aPhase, aSends>>

ReplyTimerFires ==
    /\ AssistantReady /\ replyTimers # <<>>
    /\ ACommit(ReplyTimerCallback(ACur))
    /\ UNCHANGED <<aPhase, aSends>>

(***************************************************************************)
(* AuthProvider, ProtectedRoute and the /admin route. An account is an id; *)
(* a session is the account it belongs to; id 0 stands for null.           *)
(***************************************************************************)
NoUser == [id |-> 0, role |-> "none"]
NoSession == [id |-> 0]
NoResult == [call |-> "none", failed |-> FALSE, rethrown |-> FALSE]

\* user_metadata.role of the accounts: 'admin', another string, absent
MetadataRole(id) == CASE id = 1 -> "admin" [] id = 2 -> "editor" [] OTHER -> "absent"

\* the argument of setUser built from a session's or a sign-in's user
UserOf(s) == [id |-> s.id, role |-> IF MetadataRole(s.id) = "admin" THEN "admin" ELSE "user"]

IsAdmin(u) == u # NoUser /\ u.role = "admin"

\* ProtectedRoute without the admin test
ProtectedRouteAnyUser(u, adminOnly) == IF u = NoUser THEN "/login" ELSE "children"

\* ProtectedRoute: the path it redirects to, or "children"
ProtectedRoute(u, adminOnly) ==
    IF u = NoUser THEN "/login"
    ELSE IF adminOnly /\ ~IsAdmin(u) THEN "/"
    ELSE "children"

\* the location after the router rendered `path` for user u
Routes(path, u) ==
    IF path = "/admin" /\ ProtectedRoute(u, TRUE) # "children"
    THEN ProtectedRoute(u, TRUE)
    ELSE path

RemoveAt(s, i) == SubSeq(s, 1, i - 1) \o SubSeq(s, i + 1, Len(s))

\* login after its await; account 0 stands for rejected credentials
Login(u, s, account) ==
    IF account = 0
    THEN [user |-> u, session |-> s, threw |-> TRUE]
    ELSE [user |-> UserOf([id |-> account]), session |-> [id |-> account], threw |-> FALSE]

\* signOut after its await: the library call succeeded, returned { error },
\* or rejected
SignOut(u, s, out) ==
    CASE out = "ok" -> [user |-> NoUser, session |-> NoSession, threw |-> FALSE]
      [] out = "error" -> [user |-> NoUser, session |-> s, threw |-> FALSE]
      [] OTHER -> [user |-> u, session |-> s, threw |-> TRUE]

AuthCommit(u, path, calls, events, sess, res) ==
    /\ user' = u
    /\ target' = path
    /\ route' = Routes(path, u)
    /\ authCalls' = calls
    /\ authEvents' = events
    /\ session' = sess
    /\ authResult' = res
    /\ UNCHANGED <<exploreVars, featuredVars, observed, assistantVars, drawnVars,
                   listVars, settingsVars>>

AuthReady == authPhase = "ready" /\ lpPhase = "idle" /\ stPc = "off"

\* first render with user = null, then the mount effect: checkSession is
\* called and the auth listener subscribed
AuthMount ==
    /\ authPhase = "mounting"
    /\ authPhase' = "ready"
    /\ AuthCommit(user, route, <<[kind |-> "check", account |-> 0]>>, authEvents,
                  session, NoResult)
    /\ UNCHANGED authCount

\* checkSession after its await
CheckSessionSettles ==
    /\ AuthReady
    /\ \E i \in 1..Len(authCalls) :
        /\ authCalls[i].kind = "check"
        /\ AuthCommit(IF session # NoSession THEN UserOf(session) ELSE user,
                      route, RemoveAt(authCalls, i), authEvents, session, NoResult)
    /\ UNCHANGED <<authPhase, authCount>>

\* the login page calls login(email, password)
LoginCall ==
    /\ AuthReady /\ route = "/login"
    /\ authCount < MaxAuthCalls
    /\ authCount' = authCount + 1
    /\ \E a \in 0..3 :
        AuthCommit(user, route, Append(authCalls, [kind |-> "login", account |-> a]),
                   authEvents, session, NoResult)
    /\ UNCHANGED authPhase

LoginSettles ==
    /\ AuthReady
    /\ \E i \in 1..Len(authCalls) :
        /\ authCalls[i].kind = "login"
        /\ LET r == Login(user, session, authCalls[i].account)
           IN  AuthCommit(r.user, route, RemoveAt(authCalls, i),
                          IF r.threw THEN authEvents ELSE Append(authEvents, r.session),
                          r.session,
                          [call |-> "login", failed |-> authCalls[i].account = 0,
                           rethrown |-> r.threw])
    /\ UNCHANGED <<authPhase, authCount>>

\* the Navbar's logout
SignOutCall ==
    /\ AuthReady /\ user # NoUser
    /\ authCount < MaxAuthCalls
    /\ authCount' = authCount + 1
    /\ AuthCommit(user, route, Append(authCalls, [kind |-> "signOut", account |-> 0]),
                  authEvents, session, NoResult)
    /\ UNCHANGED authPhase

SignOutSettles ==
    /\ AuthReady
    /\ \E i \in 1..Len(authCalls), out \in {"ok", "error", "thrown"} :
        /\ authCalls[i].kind = "signOut"
        /\ LET r == SignOut(user, session, out)
           IN  AuthCommit(r.user, route, RemoveAt(authCalls, i),
                          IF out = "ok" THEN Append(authEvents, NoSession) ELSE authEvents,
                          r.session,
                          [call |-> "signOut", failed |-> out # "ok", rethrown |-> r.threw])
    /\ UNCHANGED <<authPhase, authCount>>

\* the onAuthStateChange handler receives the oldest undelivered event
AuthEventDelivered ==
    /\ AuthReady /\ authEvents # <<>>
    /\ AuthCommit(IF Head(authEvents) # NoSession THEN UserOf(Head(authEvents)) ELSE NoUser,
                  route, authCalls, Tail(authEvents), session, NoResult)
    /\ UNCHANGED <<authPhase, authCount>>

\* a link or the browser's history moves to another path of the application
GoTo ==
    /\ AuthReady
    /\ \E to \in {"/admin", "/login", "/"} \ {route} :
        AuthCommit(user, to, authCalls, authEvents, session, NoResult)
    /\ UNCHANGED <<authPhase, authCount>>

(***************************************************************************)
(* ListProperties of the admin panel. Properties are ids; the repository   *)
(* returns them newest first, modelled as descending id.                   *)
(***************************************************************************)
LpIds(rows) == {rows[i] : i \in 1..Len(rows)}

RECURSIVE LpRows(_)
LpRows(repo) ==
    IF repo = {} THEN <<>>
    ELSE LET m == CHOOSE x \in repo : \A y \in repo : y <= x
         IN  <<m>> \o LpRows(repo \ {m})

\* the list is rendered when neither loading nor error is set
LpControls == route = "/admin" /\ IsAdmin(user) /\ lpPhase = "ready" /\ ~lpLoading /\ ~lpError

LpCommit(rows, ld, err, fetching, dels, repo, gone, ev) ==
    /\ lpProperties' = rows
    /\ lpLoading' = ld
    /\ lpError' = err
    /\ lpFetching' = fetching
    /\ lpDeletes' = dels
    /\ lpRepo' = repo
    /\ lpGone' = gone
    /\ lpEvent' = ev
    /\ UNCHANGED <<route, exploreVars, featuredVars, observed, assistantVars, drawnVars,
                   authVars, settingsVars>>

\* the mount effect calls fetchProperties
LpMount ==
    /\ lpPhase = "mounting"
    /\ lpPhase' = "ready"
    /\ LpCommit(lpProperties, TRUE, lpError, TRUE, lpDeletes, lpRepo, lpGone, "mount")
    /\ UNCHANGED lpActions

LpFetchFulfilled ==
    /\ lpPhase = "ready" /\ lpFetching
    /\ LpCommit(LpRows(lpRepo), FALSE, lpError, FALSE, lpDeletes, lpRepo, {}, "fetched")
    /\ UNCHANGED <<lpPhase, lpActions>>

LpFetchRejected ==
    /\ lpPhase = "ready" /\ lpFetching
    /\ LpCommit(lpProperties, FALSE, TRUE, FALSE, lpDeletes, lpRepo, lpGone, "fetchFailed")
    /\ UNCHANGED <<lpPhase, lpActions>>

\* handleDelete up to its await: window.confirm, then the delete is sent; the
\* call keeps the properties of the render whose button was clicked
LpDeleteClick ==
    /\ LpControls
    /\ lpActions < MaxListActions
    /\ lpActions' = lpActions + 1
    /\ \E id \in LpIds(lpProperties), confirmed \in BOOLEAN :
        LpCommit(lpProperties, lpLoading, lpError, lpFetching,
                 IF confirmed
                 THEN Append(lpDeletes, [id |-> id, properties |-> lpProperties])
                 ELSE lpDeletes,
                 lpRepo, lpGone, IF confirmed THEN "confirmed" ELSE "cancelled")
    /\ UNCHANGED lpPhase

\* handleDelete after its await
LpDeleteSettles ==
    /\ lpPhase = "ready"
    /\ \E i \in 1..Len(lpDeletes), accepted \in BOOLEAN :
        LET d == lpDeletes[i]
        IN  IF accepted
            THEN LpCommit(SelectSeq(d.properties, LAMBDA p : p # d.id),
                          lpLoading, lpError, lpFetching, RemoveAt(lpDeletes, i),
                          lpRepo \ {d.id}, lpGone \cup {d.id}, "deleted")
            ELSE LpCommit(lpProperties, lpLoading, lpError, lpFetching,
                          RemoveAt(lpDeletes, i), lpRepo, lpGone, "deleteFailed")
    /\ UNCHANGED <<lpPhase, lpActions>>

\* the edit form's onSave calls fetchProperties
LpEditSaved ==
    /\ LpControls
    /\ lpActions < MaxListActions
    /\ lpActions' = lpActions + 1
    /\ LpCommit(lpProperties, TRUE, lpError, TRUE, lpDeletes, lpRepo, lpGone, "saved")
    /\ UNCHANGED lpPhase

(***************************************************************************)
(* AdminSettings.saveSettings. stPc is the await the call is suspended at. *)
(***************************************************************************)
\* validateEmail of utils/validation: throws unless the text is an address
ValidateEmail(e) == e \in {"a@b.c"}

\* the checks before the first write, with the email test left out
EmailAcceptedUnchecked(e) == e # ""

\* the checks between getUser and the first write: neither throws
EmailAccepted(e) == e # "" /\ ValidateEmail(e)

Emails == {"", "admin", "a@b.c"}

StCommit(pc, saving, err, suc, writes, timers, got) ==
    /\ stPc' = pc
    /\ isSavingSettings' = saving
    /\ stError' = err
    /\ stSuccess' = suc
    /\ stWrites' = writes
    /\ stTimers' = timers
    /\ stUser' = got
    /\ UNCHANGED <<exploreVars, featuredVars, observed, assistantVars, drawnVars,
                   listVars, authPhase, authCalls, authEvents, authResult, authCount,
                   target>>

\* catch: showNotification(message, true), then finally
StFail(got) ==
    /\ StCommit("idle", FALSE, TRUE, FALSE, stWrites, stTimers + 1, got)
    /\ UNCHANGED <<route, user, session, stEmail, stSaves>>

\* the settings form is rendered for an admin on /admin
StControls == route = "/admin" /\ IsAdmin(user) /\ stPc = "idle"

StEmailChange ==
    /\ StControls
    /\ \E e \in Emails \ {stEmail} : stEmail' = e
    /\ StCommit(stPc, isSavingSettings, stError, stSuccess, stWrites, stTimers, stUser)
    /\ UNCHANGED <<route, user, session, stSaves>>

\* saveSettings up to await getUser
StSaveClick ==
    /\ StControls /\ ~isSavingSettings
    /\ stSaves < MaxSaves
    /\ stSaves' = stSaves + 1
    /\ StCommit("getUser", TRUE, FALSE, FALSE, 0, stTimers, "pending")
    /\ UNCHANGED <<route, user, session, stEmail>>

\* after getUser: an auth error or no user ("auth"), another error, or a user
StGetUserSettles ==
    /\ stPc = "getUser"
    /\ \E out \in {"ok", "auth", "other"} :
        CASE out = "auth" ->
               /\ StCommit("signOut", isSavingSettings, stError, stSuccess,
                           stWrites, stTimers, out)
               /\ UNCHANGED <<route, user, session, stEmail, stSaves>>
          [] out = "other" -> StFail(out)
          [] OTHER ->
               IF EmailAccepted(stEmail)
               THEN /\ StCommit("siteInfo", isSavingSettings, stError, stSuccess,
                                1, stTimers, out)
                    /\ UNCHANGED <<route, user, session, stEmail, stSaves>>
               ELSE StFail(out)

\* handleAuthError after await signOut(): navigate('/login'), return, finally
StSignOutSettles ==
    /\ stPc = "signOut"
    /\ \E out \in {"ok", "error", "thrown"} :
        LET r == SignOut(user, session, out)
        IN  IF r.threw THEN StFail(stUser)
            ELSE /\ StCommit("idle", FALSE, stError, stSuccess, stWrites, stTimers, stUser)
                 /\ user' = r.user
                 /\ session' = r.session
                 /\ route' = "/login"
                 /\ UNCHANGED <<stEmail, stSaves>>

\* after the site_info upsert: the contact_info upsert is sent
StSiteInfoSettles ==
    /\ stPc = "siteInfo"
    /\ \E ok \in BOOLEAN :
        IF ok
        THEN /\ StCommit("contactInfo", isSavingSettings, stError, stSuccess,
                         2, stTimers, stUser)
             /\ UNCHANGED <<route, user, session, stEmail, stSaves>>
        ELSE StFail(stUser)

\* after the contact_info upsert: updateUser (its error is ignored), the
\* 500 ms wait, and the verification query
StContactInfoSettles ==
    /\ stPc = "contactInfo"
    /\ \E ok \in BOOLEAN :
        IF ok
        THEN /\ StCommit("verify", isSavingSettings, stError, stSuccess,
                         stWrites, stTimers, stUser)
             /\ UNCHANGED <<route, user, session, stEmail, stSaves>>
        ELSE StFail(stUser)

\* after the verification query: showNotification(..., false), finally
StVerifySettles ==
    /\ stPc = "verify"
    /\ \E out \in {"match", "mismatch", "error"} :
        IF out = "match"
        THEN /\ StCommit("idle", FALSE, FALSE, TRUE, stWrites, stTimers + 1, stUser)
             /\ UNCHANGED <<route, user, session, stEmail, stSaves>>
        ELSE StFail(stUser)

\* the 5 s timer of showNotification
StNotificationTimerFires ==
    /\ stPc # "off" /\ stTimers > 0
    /\ StCommit(stPc, isSavingSettings, FALSE, FALSE, stWrites, stTimers - 1, stUser)
    /\ UNCHANGED <<route, user, session, stEmail, stSaves>>

(***************************************************************************)
(* Specifications                                                          *)
(***************************************************************************)
ExploreIs(s) ==
    /\ url = s.url
    /\ searchTerm = s.searchTerm
    /\ priceRange = s.priceRange
    /\ roomCount = s.roomCount
    /\ bathCount = s.bathCount
    /\ minSize = s.minSize
    /\ properties = s.properties
    /\ loading = s.loading
    /\ searchResults = s.searchResults
    /\ isSearchActive = s.isSearchActive
    /\ listing = s.listing
    /\ inflight = s.inflight
    /\ latestReq = s.latestReq
    /\ latestOut = s.latestOut
    /\ userActions = 0

FeaturedIs(mounted) ==
    /\ faProperties = <<>>
    /\ faLoading = TRUE
    /\ faError = "none"
    /\ faMounted = mounted
    /\ faTimer = IF mounted THEN "armed" ELSE "none"
    /\ faFetches = <<>>
    /\ faNotes = 0
    /\ repoVersion = 0

FilterIdle ==
    /\ fP = <<>>
    /\ fPrice = DefaultPriceRange
    /\ fRooms = Null
    /\ fBaths = Null
    /\ fSize = Null
    /\ fOut = <<>>
    /\ fOutSearch = <<>>
    /\ fOutAgain = <<>>
    /\ fpc = "idle"

SearchIdle ==
    /\ sTerm = <<>>
    /\ sRows = <<>>
    /\ sOut = <<>>
    /\ spc = "idle"

ComposeIdle ==
    /\ cMode = "none"
    /\ cInput = <<>>
    /\ cCtx = NoContext
    /\ cData = NoTransfer
    /\ cOut = NoMatch
    /\ cpc = "idle"

AssistantIs(phase, a) ==
    /\ aPhase = phase
    /\ messages = a.messages
    /\ inputText = a.inputText
    /\ isTyping = a.isTyping
    /\ propertyContext = a.propertyContext
    /\ seedTimer = a.seedTimer
    /\ replyTimers = a.replyTimers
    /\ store = a.store
    /\ aSends = 0

AuthIs(phase, u, s) ==
    /\ authPhase = phase
    /\ user = u
    /\ session = s
    /\ authCalls = <<>>
    /\ authEvents = <<>>
    /\ authResult = NoResult
    /\ authCount = 0
    /\ target = route

ListIs(phase) ==
    /\ lpPhase = phase
    /\ lpProperties = <<>>
    /\ lpLoading = TRUE
    /\ lpError = FALSE
    /\ lpFetching = FALSE
    /\ lpDeletes = <<>>
    /\ lpRepo = {1, 2, 3}
    /\ lpGone = {}
    /\ lpEvent = "none"
    /\ lpActions = 0

SettingsIs(pc, e) ==
    /\ stPc = pc
    /\ stEmail = e
    /\ isSavingSettings = FALSE
    /\ stError = FALSE
    /\ stSuccess = FALSE
    /\ stWrites = 0
    /\ stTimers = 0
    /\ stSaves = 0
    /\ stUser = "none"

\* the admin panel is not in use
AdminIdle ==
    /\ AuthIs("idle", NoUser, NoSession)
    /\ ListIs("idle")
    /\ SettingsIs("off", "")

\* neither the explore page nor the home page is mounted
ListingPagesIdle ==
    /\ ExploreIs(InitialState(<<>>))
    /\ FeaturedIs(FALSE)
    /\ lastEvent = "mount"
    /\ issuedNow = 0
    /\ failedUnattended = FALSE

\* no page is mounted
PagesIdle ==
    /\ route = "none"
    /\ ListingPagesIdle
    /\ AssistantIs("idle", AssistantInitial(EmptyStore))
    /\ AdminIdle

\* the application opened on /explore (at some query string) or on /
Init ==
    /\ route \in {"/explore", "/"}
    /\ IF route = "/explore"
       THEN (\E u \in InitUrls : ExploreIs(Mount(u))) /\ FeaturedIs(FALSE)
       ELSE ExploreIs(InitialState(<<>>)) /\ FeaturedIs(TRUE)
    /\ lastEvent = "mount"
    /\ issuedNow = IF route = "/explore" THEN 1 ELSE 0
    /\ failedUnattended = FALSE
    /\ AssistantIs("idle", AssistantInitial(EmptyStore))
    /\ AdminIdle
    /\ FilterIdle
    /\ SearchIdle
    /\ ComposeIdle

Next ==
    \/ SearchChange
    \/ ClearSearch
    \/ PriceMinChange
    \/ PriceMaxChange
    \/ PriceChipClear
    \/ RoomCountChange
    \/ BathCountChange
    \/ MinSizeChange
    \/ Apply
    \/ Reset
    \/ NavbarExplore
    \/ ListingFulfilled
    \/ ListingRejected
    \/ SearchFulfilled
    \/ SearchRejected
    \/ FaTimerFires
    \/ RepoChange
    \/ FaNotify
    \/ FaTryAgain
    \/ FaFetchFulfilled
    \/ FaFetchRejected
    \/ FaUnmount

Spec == Init /\ [][Next]_vars

\* the filter applied once to a drawn list and drawn criteria
FilterInit ==
    /\ PagesIdle
    /\ SearchIdle
    /\ ComposeIdle
    /\ fP \in FilterLists
    /\ fPrice \in FilterPriceRanges
    /\ fRooms \in FilterRooms
    /\ fBaths \in FilterBaths
    /\ fSize \in FilterSizes
    /\ fOut = <<>>
    /\ fOutSearch = <<>>
    /\ fOutAgain = <<>>
    /\ fpc = "start"

FilterNext == FilterApply \/ FilterAgain

FilterSpec == FilterInit /\ [][FilterNext]_vars

\* the repository query applied once to a drawn table and a drawn term
SearchInit ==
    /\ PagesIdle
    /\ FilterIdle
    /\ ComposeIdle
    /\ sTerm \in SearchTerms
    /\ sRows \in SearchTables
    /\ sOut = <<>>
    /\ spc = "start"

SearchNext == SearchApply

SearchSpec == SearchInit /\ [][SearchNext]_vars

\* the composer applied once: to a drawn input under a drawn context, or to
\* a drawn transfer string
ComposeInit ==
    /\ PagesIdle
    /\ FilterIdle
    /\ SearchIdle
    /\ cMode \in {"reply", "initial"}
    /\ IF cMode = "reply"
       THEN cInput \in ComposeInputs /\ cCtx \in ReplyContexts /\ cData = NoTransfer
       ELSE cInput = <<>> /\ cCtx = NoContext /\ cData \in InitialData
    /\ cOut = NoMatch
    /\ cpc = "start"

ComposeNext == ComposeReply \/ ComposeInitial

ComposeSpec == ComposeInit /\ [][ComposeNext]_vars

\* the application opened on /smart-assistant, with what another page left
\* in sessionStorage; the first render is done, its effects have not run
AssistantInit ==
    /\ route = "/smart-assistant"
    /\ ListingPagesIdle
    /\ \E st \in TransferStores : AssistantIs("mounting", AssistantInitial(st))
    /\ AdminIdle
    /\ FilterIdle
    /\ SearchIdle
    /\ ComposeIdle

AssistantNext ==
    \/ AssistantMount
    \/ InputChange
    \/ SendClick
    \/ EnterKey
    \/ SeedTimerFires
    \/ ReplyTimerFires

AssistantSpec == AssistantInit /\ [][AssistantNext]_vars

\* the application opened at /admin or /login, with or without a persisted session
AuthInit ==
    /\ route \in {"/admin", "/login"}
    /\ ListingPagesIdle
    /\ AssistantIs("idle", AssistantInitial(EmptyStore))
    /\ FilterIdle
    /\ SearchIdle
    /\ ComposeIdle
    /\ \E s \in {NoSession, [id |-> 1], [id |-> 2]} : AuthIs("mounting", NoUser, s)
    /\ ListIs("idle")
    /\ SettingsIs("off", "")

AuthNext ==
    \/ AuthMount
    \/ CheckSessionSettles
    \/ LoginCall
    \/ LoginSettles
    \/ SignOutCall
    \/ SignOutSettles
    \/ AuthEventDelivered
    \/ GoTo

AuthSpec == AuthInit /\ [][AuthNext]_vars

\* an admin on /admin, the property list just rendered for the first time
ListInit ==
    /\ route = "/admin"
    /\ ListingPagesIdle
    /\ AssistantIs("idle", AssistantInitial(EmptyStore))
    /\ FilterIdle
    /\ SearchIdle
    /\ ComposeIdle
    /\ AuthIs("ready", UserOf([id |-> 1]), [id |-> 1])
    /\ ListIs("mounting")
    /\ SettingsIs("off", "")

ListNext ==
    \/ LpMount
    \/ LpFetchFulfilled
    \/ LpFetchRejected
    \/ LpDeleteClick
    \/ LpDeleteSettles
    \/ LpEditSaved

ListSpec == ListInit /\ [][ListNext]_vars

\* an admin on /admin, the settings form loaded with some admin email
SettingsInit ==
    /\ route = "/admin"
    /\ ListingPagesIdle
    /\ AssistantIs("idle", AssistantInitial(EmptyStore))
    /\ FilterIdle
    /\ SearchIdle
    /\ ComposeIdle
    /\ AuthIs("ready", UserOf([id |-> 1]), [id |-> 1])
    /\ ListIs("idle")
    /\ \E e \in Emails : SettingsIs("idle", e)

SettingsNext ==
    \/ StEmailChange
    \/ StSaveClick
    \/ StGetUserSettles
    \/ StSignOutSettles
    \/ StSiteInfoSettles
    \/ StContactInfoSettles
    \/ StVerifySettles
    \/ StNotificationTimerFires

SettingsSpec == SettingsInit /\ [][SettingsNext]_vars



(***************************************************************************)
(* Properties                                                              *)
(***************************************************************************)
\* a term with no character other than the space
OnlySpaces(s) == \A i \in 1..Len(s) : s[i] = " "

\* the four predicates of the filter, stated on one property
Satisfies(p, pr, rc, bc, ms) ==
    /\ pr[1] <= p.price /\ p.price <= pr[2]
    /\ (rc = Null \/ p.bedrooms = rc.v)
    /\ (bc = Null \/ p.bathrooms = bc.v)
    /\ (ms = Null \/ ms.v <= p.size)

\* the substring matches of the current term that satisfy the current criteria
CurrentIntersection ==
    SelectSeq(QueryMatching(searchTerm),
              LAMBDA p : Satisfies(p, priceRange, roomCount, bathCount, minSize))

ShowsIntersection == DisplayProperties = CurrentIntersection

CriteriaChanged ==
    <<priceRange, roomCount, bathCount, minSize>>' # <<priceRange, roomCount, bathCount, minSize>>

\* C1: with a search for the current term completed and active, no request in
\* flight and the intersection for the current term and criteria displayed, a
\* change of any of the four criteria that leaves no request in flight leaves
\* the intersection for the new criteria displayed.
C1_CriteriaChangeReflected ==
    [][(/\ route = "/explore"
        /\ isSearchActive /\ inflight = EmptyBag /\ ShowsIntersection
        /\ latestOut = "ok" /\ latestReq.term = searchTerm
        /\ CriteriaChanged /\ searchTerm' = searchTerm
        /\ isSearchActive' /\ inflight' = EmptyBag)
       => ShowsIntersection']_vars

\* C2: once the search started last has returned data and no search is in
\* flight any more, searchResults is what that search produced, whatever the
\* order in which the responses arrived.
C2_LastStartedWins ==
    (/\ route = "/explore"
     /\ lastEvent = "fulfilled" /\ latestOut = "ok" /\ inflight = EmptyBag)
    => searchResults = SearchOutput(latestReq)

\* the occurrences of the drawn list that satisfy the drawn criteria
Kept == {j \in 1..Len(fP) : Satisfies(fP[j], fPrice, fRooms, fBaths, fSize)}

RetainsExactly(out) ==
    /\ \A i \in 1..Len(out) :
          /\ \E j \in 1..Len(fP) : fP[j] = out[i]
          /\ Satisfies(out[i], fPrice, fRooms, fBaths, fSize)
    /\ \A j \in Kept : \E i \in 1..Len(out) : out[i] = fP[j]
    /\ Len(out) = Cardinality(Kept)

\* C3: the filter (in getDisplayProperties and in performSearch) retains a
\* property iff its price is in [priceMin, priceMax] and each of the bedroom,
\* bathroom and size criteria is unset or met: nothing retained fails a
\* predicate, nothing that meets all four is dropped.
C3_RetainedIffAllFour ==
    fpc = "done" => RetainsExactly(fOut) /\ RetainsExactly(fOutSearch)

\* some drawn property is dropped and some retained, with every criterion set
C3_Witness ==
    /\ fpc = "done"
    /\ 0 < Len(fOut) /\ Len(fOut) < Len(fP)
    /\ fRooms # Null /\ fBaths # Null /\ fSize # Null

\* C4: with roomCount, bathCount and minSize null and the price range at its
\* default, the filter returns the list it was given.
C4_UnsetIsIdentity ==
    (/\ fpc = "done"
     /\ fPrice = DefaultPriceRange /\ fRooms = Null /\ fBaths = Null /\ fSize = Null)
    => fOut = fP

\* C5: with a blank term and nothing in flight, no search is active,
\* searchResults is empty and the full listing filtered by the criteria is shown.
C5_BlankTermNoSearch ==
    (/\ route = "/explore"
     /\ OnlySpaces(searchTerm) /\ inflight = EmptyBag /\ listing # "pending")
    => /\ ~isSearchActive
       /\ searchResults = <<>>
       /\ DisplayProperties
            = SelectSeq(properties,
                        LAMBDA p : Satisfies(p, priceRange, roomCount, bathCount, minSize))

\* C6: no search query is ever sent with an empty or whitespace-only term.
C6_NoBlankQuery ==
    /\ \A r \in BagToSet(inflight) : ~OnlySpaces(r.term)
    /\ latestOut # "none" => ~OnlySpaces(latestReq.term)

\* a query is in flight whose term ends in a space
C6_Witness ==
    \E r \in BagToSet(inflight) : r.term # <<>> /\ r.term[Len(r.term)] = " "

\* C7: the loading screen is shown in every state with a search in flight.
C7_LoadingWhileInFlight ==
    (route = "/explore" /\ inflight # EmptyBag) => loading

\* C8: the step in which a search fails changes neither searchResults nor
\* what is displayed.
C8_FailureKeepsResults ==
    [][(/\ route = "/explore"
        /\ lastEvent' = "rejected"
        /\ BagCardinality(inflight') < BagCardinality(inflight))
       => /\ searchResults' = searchResults
          /\ isSearchActive' = isSearchActive
          /\ DisplayProperties' = DisplayProperties]_vars

\* a search has just failed while results of an earlier search are displayed
C8_Witness ==
    /\ route = "/explore"
    /\ lastEvent = "rejected" /\ latestOut = "failed"
    /\ isSearchActive /\ searchResults # <<>>

\* C9: after a search has failed the page shows an error with a retry action.
C9_FailureShown ==
    (/\ route = "/explore"
     /\ lastEvent = "rejected" /\ latestOut = "failed" /\ inflight = EmptyBag)
    => ExploreView = "error"

\* C10 as stated: once a query has failed, no handler other than a user action
\* or a change notification sends a query.
C10_NoQueryAfterFailure == ~(failedUnattended /\ issuedNow > 0)

\* C10 amended: once a query has failed, the only handler other than a user
\* action or a change notification that sends a query is the mount timer of
\* the listing; the handling of a failure sends none.
C10_OnlyMountTimer == (failedUnattended /\ issuedNow > 0) => lastEvent = "timer"

\* a search has just failed, nothing is in flight and no query was sent
C10_Witness ==
    /\ route = "/explore"
    /\ lastEvent = "rejected" /\ latestOut = "failed"
    /\ inflight = EmptyBag /\ issuedNow = 0

\* a property one of whose three text fields contains the term, letter case ignored
ContainsTerm(p, term) ==
    \/ Contains(Lower(p.title), Lower(term))
    \/ Contains(Lower(p.location), Lower(term))
    \/ Contains(Lower(p.description), Lower(term))

\* C11: the search returns exactly the properties whose title, location or
\* description contains the term as a case-insensitive substring, in table order.
C11_ExactlySubstringMatches ==
    spc = "done" => sOut = SelectSeq(sRows, LAMBDA p : ContainsTerm(p, sTerm))

\* ---- the response composer ----
\* the keyword sets in the order the rule table is described
RuleTable ==
    << <<"garage", Keywords.garage>>, <<"neighborhood", Keywords.neighborhood>>,
       <<"price", Keywords.price>>, <<"size", Keywords.size>>,
       <<"school", Keywords.school>>, <<"commute", Keywords.commute>>,
       <<"investment", Keywords.investment>>, <<"move", Keywords.move>>,
       <<"compare", Keywords.compare>>, <<"visit", Keywords.visit>> >>

AllRules == { RuleTable[i][1] : i \in 1..Len(RuleTable) }
ContextRules == {"garage", "neighborhood", "price", "size"}

\* the rules generateAIResponse tests under a context value
TestedRules(pc) == IF pc.present THEN AllRules ELSE AllRules \ ContextRules

\* the first rule among `tested`, in table order, with a keyword in the input
FirstRule(input, tested) ==
    LET hits == { i \in 1..Len(RuleTable) :
                    /\ RuleTable[i][1] \in tested
                    /\ \E w \in RuleTable[i][2] : Contains(Lower(input), w) }
    IN  IF hits = {} THEN "none"
        ELSE RuleTable[CHOOSE i \in hits : \A j \in hits : i <= j][1]

Replied == cpc = "done" /\ cMode = "reply"

\* C12 as stated: the response is that of the first of the ten keyword sets
\* with a keyword in the lower-cased input, whatever later sets also match.
C12_FirstOfTenWins ==
    (Replied /\ FirstRule(cInput, AllRules) # "none")
    => cOut.rule = FirstRule(cInput, AllRules)

\* C12 amended: the four context rules are tested only when a context is
\* present; the response is that of the first tested set with a keyword in
\* the input.
C12_FirstTestedWins ==
    (Replied /\ FirstRule(cInput, TestedRules(cCtx)) # "none")
    => cOut.rule = FirstRule(cInput, TestedRules(cCtx))

\* a context rule wins over a general rule that also matches
C12_Witness ==
    /\ Replied /\ cCtx.present /\ ~cOut.threw
    /\ cOut.rule \in ContextRules
    /\ FirstRule(cInput, AllRules \ ContextRules) # "none"

\* C13 as stated: the default response is returned when no rule matches, and
\* when the first matching rule needs the context and the context is absent.
C13_DefaultWhenContextMissing ==
    (/\ Replied
     /\ \/ FirstRule(cInput, AllRules) = "none"
        \/ FirstRule(cInput, AllRules) \in ContextRules /\ ~cCtx.present)
    => cOut = Returned("default", DefaultText)

\* C13 amended: the default response is returned whenever no tested rule
\* matches: without a context the four context rules are not tested.
C13_DefaultWhenNoTestedRule ==
    (Replied /\ FirstRule(cInput, TestedRules(cCtx)) = "none")
    => cOut = Returned("default", DefaultText)

\* an input with a context keyword, answered without a context by the default
C13_Witness ==
    /\ Replied /\ ~cCtx.present
    /\ FirstRule(cInput, AllRules) \in ContextRules
    /\ cOut = Returned("default", DefaultText)

\* C14: compose and composeInitial return a non-empty text for every input,
\* every context and every transfer string; nothing is raised.
C14_AlwaysReturnsText ==
    cpc = "done" => ~cOut.threw /\ cOut.text # <<>>

\* some amenity of the context contains "garage", letter case ignored
SomeAmenityIsGarage(pc) ==
    /\ "amenities" \in DOMAIN pc.data
    /\ \E i \in 1..Len(pc.data.amenities) :
          Contains(Lower(pc.data.amenities[i]), <<"g", "a", "r", "a", "g", "e">>)

AsksAboutGarage ==
    /\ Replied /\ cCtx.present
    /\ \/ Contains(Lower(cInput), <<"g", "a", "r", "a", "g", "e">>)
       \/ Contains(Lower(cInput), <<"p", "a", "r", "k", "i", "n", "g">>)

\* C15: for an input containing 'garage' or 'parking' and a present context,
\* the has-garage text (which contains the word garage) is returned if some
\* amenity contains 'garage' case-insensitively, and the no-garage text only
\* when no amenity does.
C15_GarageBranch ==
    AsksAboutGarage =>
        /\ SomeAmenityIsGarage(cCtx) =>
              /\ cOut = Returned("garage", GarageYesText(cCtx))
              /\ \E i \in 1..Len(cOut.text) : cOut.text[i] = "garage"
        /\ cOut.text = GarageNoText(cCtx) => ~SomeAmenityIsGarage(cCtx)

\* the amenity is spelled "Garage" and the has-garage text is returned
C15_Witness ==
    /\ AsksAboutGarage
    /\ \E i \in 1..Len(cCtx.data.amenities) :
          cCtx.data.amenities[i] = <<"G", "a", "r", "a", "g", "e">>
    /\ cOut.text = GarageYesText(cCtx)

EndsWith(text, tail) ==
    /\ Len(text) >= Len(tail)
    /\ SubSeq(text, Len(text) - Len(tail) + 1, Len(text)) = tail

SummaryOfProperty ==
    /\ cpc = "done" /\ cMode = "initial"
    /\ cData.kind = "object" /\ cData.data \in WellFormed

\* C16 as stated: the composeInitial output contains the title verbatim and
\* ends with a question mark.
C16_TitleAndQuestionMark ==
    SummaryOfProperty =>
        /\ ~cOut.threw
        /\ Contains(cOut.text, cData.data.title)
        /\ EndsWith(cOut.text, <<"?">>)

\* C16 amended: the output contains the title verbatim and closes with a
\* question: its last pieces are a question mark, a space and a house emoji.
C16_TitleAndClosingQuestion ==
    SummaryOfProperty =>
        /\ ~cOut.threw
        /\ Contains(cOut.text, cData.data.title)
        /\ EndsWith(cOut.text, <<"?", " ", "U+1F3E0">>)

\* a summary with amenity highlights was composed
C16_Witness ==
    /\ SummaryOfProperty
    /\ Len(cData.data.amenities) >= 2
    /\ Contains(cOut.text, cData.data.title)

\* ---- order and idempotence of the filter ----
RECURSIVE IsSubsequence(_, _)
\* a is b with some elements left out
IsSubsequence(a, b) ==
    IF a = <<>> THEN TRUE
    ELSE IF b = <<>> THEN FALSE
    ELSE IF Head(a) = Head(b) THEN IsSubsequence(Tail(a), Tail(b))
    ELSE IsSubsequence(a, Tail(b))

Filtered == fpc \in {"done", "again"}

\* C17: the output of the filter is a subsequence of its input: retained
\* properties keep their input order, the result is no longer than the input,
\* and an empty input gives an empty output.
C17_StableSubsequence ==
    Filtered =>
        /\ IsSubsequence(fOut, fP) /\ IsSubsequence(fOutSearch, fP)
        /\ Len(fOut) <= Len(fP)
        /\ fP = <<>> => fOut = <<>>

\* two different properties are retained, the dearer one first as in the input
C17_Witness ==
    /\ Filtered
    /\ Len(fOut) = 2 /\ fOut = fP
    /\ fOut[1].price > fOut[2].price
    /\ fRooms # Null

\* C18: filtering the output of the filter again with the same criteria
\* returns that output.
C18_Idempotent ==
    fpc = "again" => fOutAgain = fOut

\* the second pass ran on a list from which the first pass dropped something
C18_Witness ==
    /\ fpc = "again"
    /\ 0 < Len(fOutAgain) /\ Len(fOut) < Len(fP)

\* ---- the assistant session ----
IsPrefix(a, b) == Len(a) <= Len(b) /\ SubSeq(b, 1, Len(a)) = a

\* C19: the transcript is append-only: every step of the session (seeding,
\* sending, the arrival of a reply) leaves the messages already in the
\* transcript in place and unchanged, adding only at the end.
C19_TranscriptAppendOnly == [][IsPrefix(messages, messages')]_vars

\* a seeded session in which a message was sent and answered
C19_Witness ==
    /\ route = "/smart-assistant" /\ aSends >= 1
    /\ Len(messages) >= 4
    /\ messages[2].sender = "assistant"
    /\ messages[Len(messages)].sender = "assistant"

\* a reply timer fired and its reply was appended
ReplyArrived ==
    /\ replyTimers # <<>> /\ replyTimers' = Tail(replyTimers)
    /\ Len(messages') = Len(messages) + 1

\* C20: propertyContext is set only by the seeding at session start, from the
\* transfer state, and never changes afterwards; every reply is composed
\* against the context the session holds.
C20_ContextSetOnce ==
    [][/\ propertyContext' # propertyContext =>
              /\ aPhase = "mounting"
              /\ propertyContext' = ParseContext(store.propertyData)
       /\ aPhase = "ready" => propertyContext' = propertyContext
       /\ ReplyArrived =>
              messages'[Len(messages')] =
                  AssistantMessage(GenerateAIResponse(Head(replyTimers).input,
                                                      propertyContext).text)]_vars

\* a question about the garage answered from the seeded context
C20_Witness ==
    /\ route = "/smart-assistant" /\ propertyContext.present
    /\ Len(messages) >= 3
    /\ messages[Len(messages)] = AssistantMessage(GarageYesText(propertyContext))

\* ---- the featured listing under change notifications ----
\* with every query resolved and the one started last answered, the list
\* held is the answer to that query
LatestQueryShown ==
    (/\ route = "/" /\ faMounted
     /\ faFetches # <<>> /\ FaPending = {}
     /\ faFetches[Len(faFetches)].out = "ok")
    => faProperties = faFetches[Len(faFetches)].rows

\* C21: a change notification delivered to the mounted listing starts one
\* query; once all queries have resolved the list is the result of the query
\* started last; after unmount no query is started.
C21_RequeryAndLatestWins ==
    [][/\ lastEvent' = "notify" => issuedNow' = 1
       /\ ~faMounted => Len(faFetches') = Len(faFetches)
       /\ LatestQueryShown']_vars

\* ---- typing a term ----
\* the user changed the search box and the term is not blank afterwards
TermTyped ==
    /\ route = "/explore" /\ lastEvent' = "user"
    /\ searchTerm' # searchTerm /\ ~OnlySpaces(searchTerm')

\* C22: a change of the search box to a non-blank term starts a repository
\* search for that term, on a page with no active search as well as on later
\* edits; when the search started last for the current term is answered and
\* nothing else is in flight, the displayed list is its result.
C22_TypedTermIsSearched ==
    [][/\ TermTyped => \E r \in DOMAIN inflight' : r.term = searchTerm'
       /\ (/\ route = "/explore" /\ lastEvent' = "fulfilled" /\ latestOut' = "ok"
           /\ inflight' = EmptyBag /\ latestReq'.term = searchTerm')
          => (isSearchActive' /\ searchResults' = SearchOutput(latestReq'))]_vars

\* ---- pending replies ----
\* the reply timers outstanding, the seed timer included
OutstandingReplies == Len(replyTimers) + (IF seedTimer.armed THEN 1 ELSE 0)

UserSent ==
    /\ Len(messages') = Len(messages) + 1
    /\ messages'[Len(messages')].sender = "user"

\* C23: at most one reply is pending, isTyping is true exactly when a reply
\* timer is outstanding, and no user message is sent while isTyping is true.
C23_OneReplyPending ==
    [][(route = "/smart-assistant" /\ aPhase = "ready") =>
          /\ OutstandingReplies' <= 1
          /\ isTyping' <=> OutstandingReplies' > 0
          /\ isTyping => ~UserSent]_vars

Count(sender) == Cardinality({i \in 1..Len(messages) : messages[i].sender = sender})

\* with no timer outstanding there is one reply for each user message, and
\* every reply to a sent message was composed from the text of such a message
AllAnswered ==
    (route = "/smart-assistant" /\ aPhase = "ready" /\ OutstandingReplies = 0) =>
        /\ Count("assistant") = Count("user")
        /\ \A i \in 1..Len(messages) :
              (messages[i].sender = "assistant" /\ i > 2) =>
                  \E j \in 1..(i - 1) :
                      /\ messages[j].sender = "user"
                      /\ messages[i].text
                           = GenerateAIResponse(messages[j].text, propertyContext).text

\* C24: every user message gets exactly one reply, composed from the text of
\* the message as sent; a blank input appends no message and starts no reply.
C24_EveryMessageAnswered ==
    [][/\ AllAnswered'
       /\ (route = "/smart-assistant" /\ aPhase = "ready" /\ IsBlank(inputText)) =>
              /\ ~UserSent
              /\ Len(replyTimers') <= Len(replyTimers)]_vars

\* ---- criteria through the query string ----
\* the step is applyFilters: the query string is rewritten from the criteria
FiltersApplied ==
    /\ route = "/explore" /\ lastEvent' = "user"
    /\ url' = UpdateUrlParams(Cur)
    /\ <<searchTerm', priceRange', roomCount', bathCount', minSize'>>
         = <<searchTerm, priceRange, roomCount, bathCount, minSize>>

\* C28: the query string written by applyFilters, parsed on a fresh page
\* load, restores the search term, price range, bedrooms, bathrooms and
\* minimum size it was written from.
C28_CriteriaRoundTrip ==
    [][FiltersApplied =>
          LET fresh == Mount(url')
          IN  /\ fresh.searchTerm = searchTerm
              /\ fresh.priceRange = priceRange
              /\ fresh.roomCount = roomCount
              /\ fresh.bathCount = bathCount
              /\ fresh.minSize = minSize]_vars

\* ---- the guarded admin route ----
\* C25: the router asked for /admin redirects to /login when no user is
\* signed in and to / when the user is not an admin, and the admin panel is
\* never shown for a null or non-admin user.
C25_AdminPanelGuarded ==
    [][authPhase' = "ready" =>
          /\ (target' = "/admin" /\ user' = NoUser) => route' = "/login"
          /\ (target' = "/admin" /\ user' # NoUser /\ user'.role # "admin") => route' = "/"
          /\ route' = "/admin" => (user' # NoUser /\ user'.role = "admin")]_vars

C25_NonAdminSentHome ==
    /\ authPhase = "ready" /\ target = "/admin" /\ route = "/"
    /\ user # NoUser /\ user.role = "user"

\* C26: an admin whose session is persisted and who opens /admin directly is
\* not sent to /login: the first decision of the route guard waits for the
\* session check.
C26_PersistedAdminSeesPanel ==
    [][(/\ authPhase = "mounting" /\ route = "/admin"
        /\ session # NoSession /\ MetadataRole(session.id) = "admin")
       => route' # "/login"]_vars

\* C27: a property whose delete the repository accepted is not in the list
\* again before the list is fetched anew, however many deletes are in
\* flight; a cancelled confirmation or a repository error leaves the list
\* as it was.
C27_DeletedStaysGone ==
    [][/\ lpGone' \cap LpIds(lpProperties') = {}
       /\ lpEvent' \in {"cancelled", "deleteFailed"} => lpProperties' = lpProperties]_vars

\* ---- saveSettings ----
\* the step in which a saveSettings call finishes
SaveFinished == stPc \notin {"off", "idle"} /\ stPc' = "idle"

BadEmail == stEmail = "" \/ ~ValidateEmail(stEmail)

\* C29 as claimed: a save with an empty or invalid admin email sends no write
\* and ends with the error notification set and the success one cleared;
\* whatever the outcome, isSavingSettings is false when the call finishes.
C29_BadEmailEndsInError ==
    [][SaveFinished =>
          /\ ~isSavingSettings'
          /\ BadEmail => (stWrites' = 0 /\ stError' /\ ~stSuccess')]_vars

\* C29: a save with an empty or invalid admin email sends no write and,
\* unless the user check found no valid session and the call ended by
\* signing out and navigating to /login, ends with the error notification
\* set and the success one cleared; whatever the outcome, isSavingSettings
\* is false when the call finishes.
C29_BadEmailEndsInErrorOrLogin ==
    [][SaveFinished =>
          /\ ~isSavingSettings'
          /\ BadEmail => /\ stWrites' = 0
                         /\ route' # "/login" => (stError' /\ ~stSuccess')]_vars

C29_BadEmailRejected ==
    /\ stPc = "idle" /\ stSaves > 0 /\ stUser = "ok" /\ stEmail = "admin"
    /\ stWrites = 0 /\ stError /\ ~stSuccess /\ ~isSavingSettings

\* ---- login and signOut ----
\* C30: a failed login or signOut leaves user as it was and rethrows; a
\* successful signOut sets user to null; the role of a signed-in user is
\* 'admin' exactly when the account's metadata role is 'admin'.
C30_AuthCallOutcomes ==
    [][/\ (authResult'.call # "none" /\ authResult'.failed)
            => (user' = user /\ authResult'.rethrown)
       /\ (authResult'.call = "signOut" /\ ~authResult'.failed) => user' = NoUser
       /\ user' # NoUser
            => (IsAdmin(user') <=> MetadataRole(user'.id) = "admin")]_vars

====
